---------------------------- MODULE Spec2Model ----------------------------
(***************************************************************************)
(* A model of the Spelltower solver of PuzzmoSolvers: the word search of   *)
(* src/lib/solvers/spelltower.ts over its binary-searched dictionary, its  *)
(* scoring, and the page of src/app/spelltower/page.tsx that plays words   *)
(* on the grid (clearing, bonus cells, gravity, history).                  *)
(*                                                                         *)
(* A string is a sequence of one-character strings: "cat" is               *)
(* <<"c","a","t">>.  Rows and columns are numbered from 0 as in the source;*)
(* a grid is a function grid[row][col] over 0..ROWS-1 and 0..COLS-1.       *)
(***************************************************************************)
EXTENDS Integers, Sequences, FiniteSets, TLC

VARIABLES
  pc,                \* where the running async function stands
  grid,              \* the grid: solveSpelltower's argument, the page's state
  response,          \* what fetch('/words.txt') answers
  sortedDictionary,  \* the module-level dictionary cache (null until loaded)
  result,            \* the SpelltowerSolution a direct call returned (null before)
  solving,           \* page state: a solve is running
  solution,          \* page state: the solution shown (null when none)
  selectedCellType,  \* page state: the cell type the clicks paint
  selectedWord,      \* page state: the word clicked in the list (or null)
  hoveredWord,       \* page state: the word under the pointer (or null)
  totalScore,        \* page state: the score of the words used
  history,           \* page state: the GameStates of undo and redo
  historyIndex,      \* page state: the position in history (-1 when empty)
  pending,           \* the locals of a handleUseWord that awaits the solver
  edits,             \* the number of cell edits made so far
  wordSet,           \* dictionary.ts: the local word set (null until loaded)
  wordCache,         \* wordnik.ts: the validation results cached per word
  run,               \* the locals of a running greedy solveSpelltower
  loader,            \* the calls of loadSortedDictionary under way (or null)
  wordnik,           \* the Wordnik API key and the requests sent to the API (or null)
  sourceText,        \* the source words given to solveWordbind (or null)
  memoku             \* the grid given to solveMemoku (or null)

solverVars == <<pc, grid, response, sortedDictionary, result>>
pageVars == <<solving, solution, selectedCellType, selectedWord, hoveredWord,
              totalScore, history, historyIndex, pending, edits>>
greedyVars == <<wordSet, wordCache, run>>
vars == <<pc, grid, response, sortedDictionary, result,
          solving, solution, selectedCellType, selectedWord, hoveredWord,
          totalScore, history, historyIndex, pending, edits,
          wordSet, wordCache, run, loader, wordnik, sourceText, memoku>>
otherVars == <<sourceText, memoku>>

ROWS == 13
COLS == 9

\* JavaScript's null.
NULL == [null |-> TRUE]

---------------------------------------------------------------------------
(* Characters and strings.                                                 *)

UpperCase == <<"A","B","C","D","E","F","G","H","I","J","K","L","M",
               "N","O","P","Q","R","S","T","U","V","W","X","Y","Z">>
LowerCase == <<"a","b","c","d","e","f","g","h","i","j","k","l","m",
               "n","o","p","q","r","s","t","u","v","w","x","y","z">>
Letters == {UpperCase[i] : i \in 1..26} \cup {LowerCase[i] : i \in 1..26}
\* The characters of the model: the letters, the space and a digit.
Chars == Letters \cup {" ", "1"}

\* The UTF-16 code unit of a character.
charCodeTable ==
  [ch \in Chars |->
     IF \E i \in 1..26 : UpperCase[i] = ch
       THEN 64 + (CHOOSE i \in 1..26 : UpperCase[i] = ch)
     ELSE IF \E i \in 1..26 : LowerCase[i] = ch
       THEN 96 + (CHOOSE i \in 1..26 : LowerCase[i] = ch)
     ELSE IF ch = " " THEN 32 ELSE 49]
charCodeAt(ch) == charCodeTable[ch]

lowerTable ==
  [ch \in Chars |->
     IF \E i \in 1..26 : UpperCase[i] = ch
       THEN LowerCase[CHOOSE i \in 1..26 : UpperCase[i] = ch]
       ELSE ch]
upperTable ==
  [ch \in Chars |->
     IF \E i \in 1..26 : LowerCase[i] = ch
       THEN UpperCase[CHOOSE i \in 1..26 : LowerCase[i] = ch]
       ELSE ch]

\* String.prototype.toLowerCase / toUpperCase, character by character.
toLowerCase(s) == [i \in 1..Len(s) |-> lowerTable[s[i]]]
toUpperCase(s) == [i \in 1..Len(s) |-> upperTable[s[i]]]

\* String.prototype.trim: the spaces at both ends removed.
trim(s) ==
  LET inner == {i \in 1..Len(s) : s[i] # " "}
  IN IF inner = {} THEN <<>>
     ELSE LET lo == CHOOSE i \in inner : \A j \in inner : i <= j
              hi == CHOOSE i \in inner : \A j \in inner : i >= j
          IN SubSeq(s, lo, hi)

\* s < t of JavaScript strings: by code units, a proper prefix first.
strLess(s, t) ==
  LET n == IF Len(s) < Len(t) THEN Len(s) ELSE Len(t)
      diff == {i \in 1..n : s[i] # t[i]}
  IN IF diff = {} THEN Len(s) < Len(t)
     ELSE LET k == CHOOSE i \in diff : \A j \in diff : i <= j
          IN charCodeAt(s[k]) < charCodeAt(t[k])

startsWith(word, prefix) ==
  /\ Len(prefix) <= Len(word)
  /\ SubSeq(word, 1, Len(prefix)) = prefix

---------------------------------------------------------------------------
(* The sorted dictionary: loadSortedDictionary, isValidPrefix, isWord.     *)

\* Array.prototype.sort() without a comparator: ascending by code units.
RECURSIVE insertSorted(_, _)
insertSorted(sorted, w) ==
  IF sorted = <<>> THEN <<w>>
  ELSE IF strLess(w, Head(sorted)) THEN <<w>> \o sorted
  ELSE <<Head(sorted)>> \o insertSorted(Tail(sorted), w)

RECURSIVE sortStrings(_)
sortStrings(ws) ==
  IF ws = <<>> THEN <<>>
  ELSE insertSorted(sortStrings(SubSeq(ws, 1, Len(ws) - 1)), ws[Len(ws)])

\* The lines of the file, trimmed and lower-cased, the empty ones dropped.
parseWords(lines) ==
  LET cleaned == [i \in 1..Len(lines) |-> toLowerCase(trim(lines[i]))]
  IN SelectSeq(cleaned, LAMBDA w : Len(w) > 0)

\* The value loadSortedDictionary caches and returns: the cache when one is
\* set (an empty array is truthy), else the sorted words, or [] when the
\* fetch fails.
loadSortedDictionary(cache, resp) ==
  IF cache # NULL THEN cache
  ELSE IF ~resp.ok THEN <<>>
  ELSE sortStrings(parseWords(resp.lines))

RECURSIVE isValidPrefixLoop(_, _, _, _)
isValidPrefixLoop(dictionary, prefix, begin, end) ==
  IF begin > end THEN FALSE
  ELSE LET mid == (begin + end) \div 2
           word == dictionary[mid + 1]
       IN IF startsWith(word, prefix) THEN TRUE
          ELSE IF strLess(prefix, word)
            THEN isValidPrefixLoop(dictionary, prefix, begin, mid - 1)
            ELSE isValidPrefixLoop(dictionary, prefix, mid + 1, end)

isValidPrefix(dictionary, prefix) ==
  IF Len(prefix) = 0 THEN TRUE
  ELSE isValidPrefixLoop(dictionary, prefix, 0, Len(dictionary) - 1)

RECURSIVE isWordLoop(_, _, _, _)
isWordLoop(dictionary, word, begin, end) ==
  IF begin > end THEN FALSE
  ELSE LET mid == (begin + end) \div 2
           dictWord == dictionary[mid + 1]
       IN IF dictWord = word THEN TRUE
          ELSE IF strLess(word, dictWord)
            THEN isWordLoop(dictionary, word, begin, mid - 1)
            ELSE isWordLoop(dictionary, word, mid + 1, end)

isWord(dictionary, word) == isWordLoop(dictionary, word, 0, Len(dictionary) - 1)

---------------------------------------------------------------------------
(* The grid.                                                               *)

Rows == 0..(ROWS - 1)
Cols == 0..(COLS - 1)

BlankCell == [letter |-> "", type |-> "blank"]

\* createEmptyGrid of spelltower.ts: every cell without a letter, of type
\* 'letter'.
createEmptyGrid ==
  [r \in Rows |-> [c \in Cols |-> [letter |-> "", type |-> "letter"]]]

\* The in-bounds neighbours of (row, col), diagonals included, in the order
\* of the two loops.
getAdjacentCells(row, col) ==
  LET offs == <<<<-1,-1>>, <<-1,0>>, <<-1,1>>, <<0,-1>>, <<0,1>>,
                <<1,-1>>, <<1,0>>, <<1,1>>>>
      all == [k \in 1..8 |-> [row |-> row + offs[k][1], col |-> col + offs[k][2]]]
  IN SelectSeq(all, LAMBDA p : /\ p.row >= 0 /\ p.row < ROWS
                               /\ p.col >= 0 /\ p.col < COLS)

\* The table with the entry of S left out.
LETTER_VALUES_WithoutS ==
  [Q |-> 12, Z |-> 11,
   J |-> 9, X |-> 9,
   K |-> 6,
   F |-> 5, H |-> 5, V |-> 5, W |-> 5, Y |-> 5,
   B |-> 4, C |-> 4, M |-> 4, P |-> 4,
   D |-> 3, G |-> 3,
   L |-> 2, N |-> 2, R |-> 2, T |-> 2,
   A |-> 1, E |-> 1, I |-> 1, O |-> 1, U |-> 1]

LETTER_VALUES ==
  [Q |-> 12, Z |-> 11,
   J |-> 9, X |-> 9,
   K |-> 6,
   F |-> 5, H |-> 5, V |-> 5, W |-> 5, Y |-> 5,
   B |-> 4, C |-> 4, M |-> 4, P |-> 4,
   D |-> 3, G |-> 3,
   L |-> 2, N |-> 2, R |-> 2, T |-> 2,
   A |-> 1, E |-> 1, I |-> 1, O |-> 1, U |-> 1, S |-> 1]

\* LETTER_VALUES[letter.toUpperCase()] || 0, of a one-character string or ''.
getLetterValue(letter) ==
  IF letter = "" THEN 0
  ELSE IF upperTable[letter] \in DOMAIN LETTER_VALUES
    THEN LETTER_VALUES[upperTable[letter]]
    ELSE 0

---------------------------------------------------------------------------
(* The word search: traverse and findAllWords.                             *)

\* The key of a path in the solutions map: `${row},${col}` of each step,
\* joined by '->'.  The numbers and the two separators are kept as a
\* sequence of pairs.
pathKey(path) == [i \in 1..Len(path) |-> <<path[i].row, path[i].col>>]

\* Map.prototype.has on the solutions map, kept in insertion order.
solutionsHas(solutions, key) == \E i \in 1..Len(solutions) : solutions[i].key = key

\* The search state that traverse shares with its callers: the visited
\* matrix, the path array and the solutions map, all mutated in place.
newSearch ==
  [visited |-> [r \in Rows |-> [c \in Cols |-> FALSE]],
   path |-> <<>>,
   solutions |-> <<>>]

\* enterCell without visited[y][x] = true.
enterCell_Unmarked(grid_, dictionary, st, x, y, newWord) ==
  LET path1 == Append(st.path, [row |-> y, col |-> x])
      st1 == [st EXCEPT !.path = path1]
  IN IF Len(newWord) >= 3 /\ isWord(dictionary, newWord)
       THEN IF solutionsHas(st1.solutions, pathKey(path1)) THEN st1
            ELSE [st1 EXCEPT !.solutions =
                    Append(@, [key |-> pathKey(path1), word |-> newWord, path |-> path1])]
       ELSE st1

\* enterCell without the test newWord.length >= 3.
enterCell_AnyLength(grid_, dictionary, st, x, y, newWord) ==
  LET path1 == Append(st.path, [row |-> y, col |-> x])
      st1 == [st EXCEPT !.path = path1, !.visited[y][x] = TRUE]
  IN IF isWord(dictionary, newWord)
       THEN IF solutionsHas(st1.solutions, pathKey(path1)) THEN st1
            ELSE [st1 EXCEPT !.solutions =
                    Append(@, [key |-> pathKey(path1), word |-> newWord, path |-> path1])]
       ELSE st1

\* What traverse does once the prefix is accepted and before it explores:
\* push the cell, mark it, and record the word when it is one.
enterCell(grid_, dictionary, st, x, y, newWord) ==
  LET path1 == Append(st.path, [row |-> y, col |-> x])
      st1 == [st EXCEPT !.path = path1, !.visited[y][x] = TRUE]
  IN IF Len(newWord) >= 3 /\ isWord(dictionary, newWord)
       THEN IF solutionsHas(st1.solutions, pathKey(path1)) THEN st1
            ELSE [st1 EXCEPT !.solutions =
                    Append(@, [key |-> pathKey(path1), word |-> newWord, path |-> path1])]
       ELSE st1

\* leaveCell without path.pop().
leaveCell_KeepPath(st, x, y) ==
  [st EXCEPT !.visited[y][x] = FALSE]

\* leaveCell without visited[y][x] = false.
leaveCell_KeepVisited(st, x, y) ==
  [st EXCEPT !.path = SubSeq(@, 1, Len(@) - 1)]

\* The backtracking at the end of traverse.
leaveCell(st, x, y) ==
  [st EXCEPT !.visited[y][x] = FALSE, !.path = SubSeq(@, 1, Len(@) - 1)]

RECURSIVE traverse(_, _, _, _, _, _)
RECURSIVE traverseAdjacent(_, _, _, _, _, _)

\* traverse(grid, dictionary, visited, solutions, x, y, value, path): the
\* search state after the call.
traverse(grid_, dictionary, st, x, y, value) ==
  IF x < 0 \/ y < 0 \/ x >= COLS \/ y >= ROWS THEN st
  ELSE IF grid_[y][x].letter = "" \/ st.visited[y][x] THEN st
  ELSE LET newWord == toLowerCase(value \o <<grid_[y][x].letter>>)
       IN IF ~isValidPrefix(dictionary, newWord) THEN st
          ELSE leaveCell(
                 traverseAdjacent(grid_, dictionary,
                                  enterCell(grid_, dictionary, st, x, y, newWord),
                                  getAdjacentCells(y, x), 1, newWord),
                 x, y)

\* The loop of traverse over the adjacent cells, from the k-th on.
traverseAdjacent(grid_, dictionary, st, adjacent, k, newWord) ==
  IF k > Len(adjacent) THEN st
  ELSE traverseAdjacent(grid_, dictionary,
         traverse(grid_, dictionary, st, adjacent[k].col, adjacent[k].row, newWord),
         adjacent, k + 1, newWord)

\* The cells the two loops of findAllWords start a search from: those
\* with a letter, row by row and left to right.
startCells(grid_) ==
  SelectSeq([k \in 1..(ROWS * COLS) |->
               [row |-> (k - 1) \div COLS, col |-> (k - 1) % COLS]],
            LAMBDA p : grid_[p.row][p.col].letter # "")

\* The searches of findAllWords from the k-th start cell on.
RECURSIVE searchFrom(_, _, _, _, _)
searchFrom(grid_, dictionary, st, cells, k) ==
  IF k > Len(cells) THEN st
  ELSE searchFrom(grid_, dictionary,
         traverse(grid_, dictionary, st, cells[k].col, cells[k].row, <<>>),
         cells, k + 1)

RECURSIVE sumSeq(_)
sumSeq(s) == IF s = <<>> THEN 0 ELSE Head(s) + sumSeq(Tail(s))

\* scoreWord with the score doubled once when any cell is starred.
scoreWord_StarDoubles(grid_, word, path) ==
  LET hasRedTile == \E i \in 1..Len(path) : grid_[path[i].row][path[i].col].type = "red"
      starCount == Cardinality({i \in 1..Len(path) :
                                  grid_[path[i].row][path[i].col].type = "starred"})
      tileValueSum == sumSeq([i \in 1..Len(path) |->
                                getLetterValue(grid_[path[i].row][path[i].col].letter)])
  IN [word |-> word,
      path |-> path,
      score |-> tileValueSum * Len(word) * (IF starCount > 0 THEN 2 ELSE 1),
      hasRedTile |-> hasRedTile,
      hasStarredTile |-> starCount > 0]

\* The WordPath findAllWords builds of a found word and its path.
scoreWord(grid_, word, path) ==
  LET hasRedTile == \E i \in 1..Len(path) : grid_[path[i].row][path[i].col].type = "red"
      starCount == Cardinality({i \in 1..Len(path) :
                                  grid_[path[i].row][path[i].col].type = "starred"})
      tileValueSum == sumSeq([i \in 1..Len(path) |->
                                getLetterValue(grid_[path[i].row][path[i].col].letter)])
  IN [word |-> word,
      path |-> path,
      score |-> tileValueSum * Len(word) * (1 + starCount),
      hasRedTile |-> hasRedTile,
      hasStarredTile |-> starCount > 0]

\* The comparator of findAllWords: longer words first, then
\* a.word.localeCompare(b.word), which on lower-case ASCII letters is the
\* alphabetical order.
compareWords(a, b) ==
  IF Len(a.word) # Len(b.word) THEN Len(b.word) - Len(a.word)
  ELSE IF a.word = b.word THEN 0
  ELSE IF strLess(a.word, b.word) THEN -1 ELSE 1

\* Array.prototype.sort(compare), which is stable.
RECURSIVE insertWord(_, _)
insertWord(sorted, w) ==
  IF sorted = <<>> THEN <<w>>
  ELSE IF compareWords(w, Head(sorted)) < 0 THEN <<w>> \o sorted
  ELSE <<Head(sorted)>> \o insertWord(Tail(sorted), w)

RECURSIVE sortWords(_)
sortWords(ws) ==
  IF ws = <<>> THEN <<>>
  ELSE insertWord(sortWords(SubSeq(ws, 1, Len(ws) - 1)), ws[Len(ws)])

\* findAllWords(grid) with the loaded dictionary.
findAllWords(grid_, dictionary) ==
  LET solutions == searchFrom(grid_, dictionary, newSearch, startCells(grid_), 1).solutions
      validWords == [i \in 1..Len(solutions) |->
                       scoreWord(grid_, solutions[i].word, solutions[i].path)]
  IN sortWords(validWords)

\* solveSpelltower(grid) with the loaded dictionary.
solveSpelltower(grid_, dictionary) ==
  LET allWords == findAllWords(grid_, dictionary)
  IN IF Len(allWords) = 0
       THEN [sequence |-> <<>>, totalScore |-> 0, clearedAll |-> FALSE]
       ELSE [sequence |-> allWords,
             totalScore |-> sumSeq([i \in 1..Len(allWords) |-> allWords[i].score]),
             clearedAll |-> FALSE]

---------------------------------------------------------------------------
(* The bounded inputs.                                                     *)

\* At most this many cells of a board hold a tile.
MaxTiles == 4

\* The cells that may hold a tile: the bottom row of the three left
\* columns and the two cells above its first two.
Region == {<<ROWS - 1, 0>>, <<ROWS - 1, 1>>, <<ROWS - 1, 2>>,
           <<ROWS - 2, 0>>, <<ROWS - 2, 1>>}

\* The letters typed into the grid (handleCellLetterChange upper-cases).
Alphabet == {"C", "A", "T"}

\* A fixed lettering of the region, for the boards whose tile kinds vary.
BaseLetters ==
  [p \in Region |->
     IF p[1] = ROWS - 1 THEN <<"C", "A", "T">>[p[2] + 1]
                        ELSE <<"T", "A">>[p[2] + 1]]

TileKinds == {"letter", "red", "starred"}

\* Three-letter words that use every letter of the alphabet between them.
PangramWords ==
  { <<"Q","U","A">>, <<"Z","E","K">>, <<"J","I","B">>, <<"F","O","X">>,
    <<"W","H","Y">>, <<"V","I","M">>, <<"P","O","D">>, <<"G","N","U">>,
    <<"A","R","T">>, <<"E","L","S">>, <<"C","A","T">> }

\* The grid whose cells in S hold the tiles of cellOf, the others blank.
gridOf(S, cellOf) ==
  [r \in Rows |-> [c \in Cols |->
     IF <<r, c>> \in S THEN cellOf[<<r, c>>] ELSE BlankCell]]

\* The grid with the normal tiles of a three-letter word at the left of the
\* bottom row.
rowBoard(w) ==
  gridOf({<<ROWS - 1, c>> : c \in 0..2},
         [p \in {<<ROWS - 1, c>> : c \in 0..2} |->
            [letter |-> w[p[2] + 1], type |-> "letter"]])

TileSets == {S \in SUBSET Region : Cardinality(S) <= MaxTiles}

\* Boards of normal tiles with any lettering, boards of the fixed lettering
\* with any tile kinds, and the boards of the pangram words.
IsSolverBoard(g) ==
  \/ \E S \in TileSets :
       \/ \E l \in [S -> Alphabet] :
            g = gridOf(S, [p \in S |-> [letter |-> l[p], type |-> "letter"]])
       \/ \E k \in [S -> TileKinds] :
            g = gridOf(S, [p \in S |-> [letter |-> BaseLetters[p], type |-> k[p]]])
  \/ \E w \in PangramWords : g = rowBoard(w)

\* The answers of fetch('/words.txt'): word files (unsorted, with capitals,
\* spaces, an empty line, a two-letter word, a word no board can spell),
\* and a failed fetch.
Responses ==
  { [ok |-> TRUE,
     lines |-> << <<"t","a","c","t">>, <<"C","a","t"," ">>, <<"a","c","t">>,
                  <<>>, <<"a","t">>, <<"t","a","c","i","t">> >>],
    [ok |-> TRUE, lines |-> << <<"c","a","t">> >>],
    [ok |-> TRUE,
     lines |-> << <<"t","a","t">>, <<"a","c","t","a">>, <<" ","c","a","t">>,
                  <<"c","a","t">>, <<"t","a","c">> >>],
    [ok |-> TRUE,
     lines |-> << <<"q","u","a">>, <<"z","e","k">>, <<"j","i","b">>,
                  <<"f","o","x">>, <<"w","h","y">>, <<"v","i","m">>,
                  <<"p","o","d">>, <<"g","n","u">>, <<"a","r","t">>,
                  <<"e","l","s">> >>],
    [ok |-> FALSE, lines |-> <<>>] }

---------------------------------------------------------------------------
(* A call of the solver: solveSpelltower awaits findAllWords, which awaits *)
(* loadSortedDictionary and then searches the grid.                        *)

\* The state of the page as useState constructs it (the grid apart).
InitialState ==
  /\ solving = FALSE
  /\ solution = NULL
  /\ selectedCellType = "letter"
  /\ selectedWord = NULL
  /\ hoveredWord = NULL
  /\ totalScore = 0
  /\ history = <<>>
  /\ historyIndex = -1
  /\ pending = NULL
  /\ edits = 0
  /\ wordSet = NULL
  /\ wordCache = <<>>
  /\ run = NULL

SolverInit ==
  /\ pc = "call"
  /\ IsSolverBoard(grid)
  /\ response \in Responses
  /\ sortedDictionary = NULL
  /\ result = NULL
  /\ InitialState
  /\ loader = NULL
  /\ wordnik = NULL
  /\ sourceText = NULL
  /\ memoku = NULL

\* findAllWords: const dictionary = await loadSortedDictionary().
LoadSortedDictionary ==
  /\ pc = "call"
  /\ sortedDictionary' = loadSortedDictionary(sortedDictionary, response)
  /\ pc' = "search"
  /\ UNCHANGED <<grid, response, result>>
  /\ UNCHANGED pageVars
  /\ UNCHANGED loader
  /\ UNCHANGED wordnik
  /\ UNCHANGED otherVars
  /\ UNCHANGED greedyVars

\* Every cell findAllWords and traverse read, grid[row][col] for row below
\* ROWS and col below COLS, is there.
readable(grid_) ==
  /\ Rows \subseteq DOMAIN grid_
  /\ \A r \in Rows : Cols \subseteq DOMAIN grid_[r]

\* The rest of findAllWords and of solveSpelltower, every read of a cell
\* succeeding.
SolveSpelltower ==
  /\ pc = "search"
  /\ readable(grid)
  /\ result' = solveSpelltower(grid, sortedDictionary)
  /\ pc' = "done"
  /\ UNCHANGED <<grid, response, sortedDictionary>>
  /\ UNCHANGED pageVars
  /\ UNCHANGED loader
  /\ UNCHANGED wordnik
  /\ UNCHANGED otherVars
  /\ UNCHANGED greedyVars

SolverNext == LoadSortedDictionary \/ SolveSpelltower

SolverSpec == SolverInit /\ [][SolverNext]_vars

---------------------------------------------------------------------------
(* The search and the scoring, against the board and the word file.        *)

\* The words of the file as a set: each line trimmed and lower-cased, the
\* empty ones left out; no word when the fetch failed.
Lexicon ==
  IF response.ok
    THEN {toLowerCase(trim(response.lines[i])) : i \in 1..Len(response.lines)} \ {<<>>}
    ELSE {}

Found == result.sequence

cellAt(p) == grid[p.row][p.col]

absDiff(a, b) == IF a < b THEN b - a ELSE a - b

\* Chebyshev distance 1.
Adjacent8(p, q) ==
  /\ absDiff(p.row, q.row) <= 1
  /\ absDiff(p.col, q.col) <= 1
  /\ p # q

\* The cells that hold a letter.
LetterCells == {p \in [row : Rows, col : Cols] : cellAt(p).letter # ""}

\* The simple paths of n letter cells, each step to one of the 8 neighbours.
RECURSIVE SimplePaths(_)
SimplePaths(n) ==
  IF n = 1 THEN {<<p>> : p \in LetterCells}
  ELSE UNION {{Append(path, q) :
                 q \in {q \in LetterCells :
                          /\ Adjacent8(path[n - 1], q)
                          /\ \A i \in 1..(n - 1) : path[i] # q}}
              : path \in SimplePaths(n - 1)}

\* The word a path spells, in lower case.
Spelled(path) == [i \in 1..Len(path) |-> lowerTable[cellAt(path[i]).letter]]

\* Every simple path of at least three cells that spells a word of the file.
WordPathsOnBoard ==
  UNION {{path \in SimplePaths(n) : Spelled(path) \in Lexicon}
         : n \in 3..Cardinality(LetterCells)}

\* C1: every WordPath returned has as many coordinates as letters, no
\* coordinate twice, consecutive coordinates at Chebyshev distance 1, and
\* its i-th letter is the letter of the board cell at its i-th coordinate
\* (the word being the lower-case spelling of the tiles).
C1_WordPathWellFormed ==
  pc = "done" =>
    \A k \in 1..Len(Found) :
      LET wp == Found[k] IN
        /\ Len(wp.path) = Len(wp.word)
        /\ \A i, j \in 1..Len(wp.path) : i # j => wp.path[i] # wp.path[j]
        /\ \A i \in 1..(Len(wp.path) - 1) : Adjacent8(wp.path[i], wp.path[i + 1])
        /\ \A i \in 1..Len(wp.path) :
             /\ wp.path[i].row \in Rows /\ wp.path[i].col \in Cols
             /\ cellAt(wp.path[i]).letter # ""
             /\ wp.word[i] = lowerTable[cellAt(wp.path[i]).letter]

\* A board where a word was found along a path with a diagonal step.
C1_Witness ==
  /\ pc = "done"
  /\ \E k \in 1..Len(Found) :
       /\ Len(Found[k].word) = 4
       /\ \E i \in 1..3 : /\ Found[k].path[i].row # Found[k].path[i + 1].row
                          /\ Found[k].path[i].col # Found[k].path[i + 1].col

\* C2: every WordPath returned spells a word of the word file, which isWord
\* accepts, of at least 3 letters, and none of its cells is blank.
C2_OnlyLexiconWords ==
  pc = "done" =>
    \A k \in 1..Len(Found) :
      /\ Found[k].word \in Lexicon
      /\ isWord(sortedDictionary, Found[k].word)
      /\ Len(Found[k].word) >= 3
      /\ \A i \in 1..Len(Found[k].path) :
           /\ cellAt(Found[k].path[i]).letter # ""
           /\ cellAt(Found[k].path[i]).type # "blank"

\* A word was found on a board where a two-letter word of the file, "at",
\* is spelled by adjacent tiles too.
C2_Witness ==
  /\ pc = "done"
  /\ Len(Found) > 0
  /\ <<"a", "t">> \in Lexicon
  /\ \E path \in SimplePaths(2) : Spelled(path) = <<"a", "t">>

\* C3: the paths returned are exactly the simple paths of 8-adjacent letter
\* cells that spell a word of the file of at least 3 letters, each once.
C3_CompleteNoDuplicates ==
  pc = "done" =>
    /\ {Found[k].path : k \in 1..Len(Found)} = WordPathsOnBoard
    /\ \A j, k \in 1..Len(Found) : j # k => Found[j].path # Found[k].path

\* The same word was found along two different paths, and a prefix that is
\* no word ("ta" of "tat") was walked through.
C3_Witness ==
  /\ pc = "done"
  /\ \E j, k \in 1..Len(Found) :
       /\ j # k
       /\ Found[j].word = Found[k].word
       /\ Found[j].path # Found[k].path
  /\ \E k \in 1..Len(Found) : Found[k].word = <<"t", "a", "t">>
  /\ <<"t", "a">> \notin Lexicon

\* The cells of a path, as a set.
PathCells(path) == {path[i] : i \in 1..Len(path)}

valueOfCell(p) == getLetterValue(cellAt(p).letter)

\* The sum of the letter values of a set of cells.
RECURSIVE SumValues(_)
SumValues(S) ==
  IF S = {} THEN 0
  ELSE LET x == CHOOSE x \in S : TRUE IN valueOfCell(x) + SumValues(S \ {x})

\* C4: the score of every WordPath is (the sum of the letter values of its
\* cells) x (its length) x (1 + the number of starred cells on its path),
\* and its two flags say whether a red, a starred cell is on the path.
C4_ScoreFormula ==
  pc = "done" =>
    \A k \in 1..Len(Found) :
      LET wp == Found[k]
          cells == PathCells(wp.path)
          stars == {p \in cells : cellAt(p).type = "starred"}
      IN /\ wp.score = SumValues(cells) * Len(wp.word)
                         * (1 + Cardinality(stars))
         /\ wp.hasStarredTile = (stars # {})
         /\ wp.hasRedTile = (\E p \in cells : cellAt(p).type = "red")

\* A word was scored whose path holds two starred cells and a red one.
C4_Witness ==
  /\ pc = "done"
  /\ \E k \in 1..Len(Found) :
       /\ Cardinality({p \in PathCells(Found[k].path) : cellAt(p).type = "starred"}) = 2
       /\ \E p \in PathCells(Found[k].path) : cellAt(p).type = "red"

\* C5 (as amended): the table gives 1 to each of A, E, I, O, U and S, its
\* maximum 12 to Q alone and 11 to Z; every letter A-Z, in either case, has
\* a value between 1 and 12.
C5_LetterValues ==
  /\ \A i \in 1..26 :
       /\ getLetterValue(UpperCase[i]) \in 1..12
       /\ getLetterValue(LowerCase[i]) = getLetterValue(UpperCase[i])
       /\ UpperCase[i] # "Q" => getLetterValue(UpperCase[i]) < 12
  /\ \A l \in {"A", "E", "I", "O", "U", "S"} : getLetterValue(l) = 1
  /\ getLetterValue("Q") = 12
  /\ getLetterValue("Z") = 11
  /\ pc = "done" =>
       \A k \in 1..Len(Found) : \A p \in PathCells(Found[k].path) :
         valueOfCell(p) \in 1..12

\* C5 as claimed: Q and Z both have the maximum value 12.
C5_AsClaimed ==
  /\ \A i \in 1..26 : getLetterValue(UpperCase[i]) \in 1..12
  /\ \A l \in {"A", "E", "I", "O", "U", "S"} : getLetterValue(l) = 1
  /\ getLetterValue("Q") = 12
  /\ (pc = "done" /\ \E p \in LetterCells : cellAt(p).letter = "Z") =>
       \A p \in LetterCells : cellAt(p).letter = "Z" => valueOfCell(p) = 12

\* The word "zek" was scored (11 + 1 + 6) * 3: its Z counts 11.
C5_Witness ==
  /\ pc = "done"
  /\ \E k \in 1..Len(Found) : Found[k].word = <<"z","e","k">> /\ Found[k].score = 54

ScenarioA == rowBoard(<<"C", "A", "T">>)
ScenarioB == [ScenarioA EXCEPT ![ROWS - 1][1].type = "starred"]

\* C6: on the board whose only tiles are C, A, T at (12,0), (12,1), (12,2),
\* with "cat" in the word file, the solver returns the single WordPath "cat"
\* with both flags false and score 18, and clearedAll = true; with (12,1)
\* starred the score of "cat" is 36.
C6_ScenarioAB ==
  (pc = "done" /\ <<"c","a","t">> \in Lexicon) =>
    /\ grid = ScenarioA =>
         /\ Len(Found) = 1
         /\ Found[1].word = <<"c","a","t">>
         /\ ~Found[1].hasRedTile /\ ~Found[1].hasStarredTile
         /\ Found[1].score = 18
         /\ result.clearedAll = TRUE
    /\ grid = ScenarioB =>
         \E k \in 1..Len(Found) :
           Found[k].word = <<"c","a","t">> /\ Found[k].score = 36

\* C7: on a board without a tile the solver returns exactly
\* {sequence: [], totalScore: 0, clearedAll: true}.
C7_EmptyBoard ==
  (pc = "done" /\ LetterCells = {}) =>
    result = [sequence |-> <<>>, totalScore |-> 0, clearedAll |-> TRUE]

---------------------------------------------------------------------------
(* The page of src/app/spelltower/page.tsx: the grid is edited, solved, and *)
(* words of the solution are played on it.                                  *)

\* At most this many cell edits (letters typed, cells clicked) in a session.
MaxEdits == 1

getActiveWord(hovered, selected) == IF hovered # NULL THEN hovered ELSE selected

\* The candidates appended to clearCells in their order, each when it is in
\* bounds, off the path and not in clearCells yet.
RECURSIVE pushClearCells(_, _, _, _)
pushClearCells(clearCells, candidates, k, path) ==
  IF k > Len(candidates) THEN clearCells
  ELSE LET adj == candidates[k]
           fresh == /\ adj.row >= 0 /\ adj.row < ROWS
                    /\ adj.col >= 0 /\ adj.col < COLS
                    /\ \A i \in 1..Len(path) : path[i] # adj
                    /\ \A i \in 1..Len(clearCells) : clearCells[i] # adj
       IN pushClearCells(IF fresh THEN Append(clearCells, adj) ELSE clearCells,
                         candidates, k + 1, path)

\* The concatenation of the sequences cellsOf[1], ..., cellsOf[n].
RECURSIVE flatten(_, _)
flatten(cellsOf, n) ==
  IF n = 0 THEN <<>> ELSE flatten(cellsOf, n - 1) \o cellsOf[n]

\* getAdjacentClearCells(): the cells a play of the active word clears
\* besides its path.
getAdjacentClearCells(grid_, activeWord) ==
  IF activeWord = NULL THEN <<>>
  ELSE LET path == activeWord.path
           adjacent == flatten([i \in 1..Len(path) |->
                                  << [row |-> path[i].row - 1, col |-> path[i].col],
                                     [row |-> path[i].row + 1, col |-> path[i].col],
                                     [row |-> path[i].row, col |-> path[i].col - 1],
                                     [row |-> path[i].row, col |-> path[i].col + 1] >>],
                               Len(path))
           rows == flatten([i \in 1..Len(path) |->
                              IF grid_[path[i].row][path[i].col].type = "red"
                                THEN [c \in 1..COLS |-> [row |-> path[i].row, col |-> c - 1]]
                                ELSE <<>>],
                           Len(path))
           bonus == IF Len(activeWord.word) >= 5
                      THEN pushClearCells(<<>>, adjacent, 1, path)
                      ELSE <<>>
       IN pushClearCells(bonus, rows, 1, path)

\* The grid with each cell of the sequence set to { letter: '', type: 'blank' }.
removeCells(grid_, cells) ==
  [r \in Rows |-> [c \in Cols |->
     IF \E i \in 1..Len(cells) : cells[i] = [row |-> r, col |-> c]
       THEN BlankCell ELSE grid_[r][c]]]

\* The cells of a column that gravity keeps, from the bottom up.
nonBlankCells(grid_, col) ==
  LET column == [k \in 1..ROWS |-> grid_[ROWS - k][col]]
  IN SelectSeq(column, LAMBDA cell : cell.type # "blank" /\ cell.letter # "")

\* applyGravity with each column refilled from the top of what it kept.
applyGravity_Reversed(grid_) ==
  [r \in Rows |-> [c \in Cols |->
     LET kept == nonBlankCells(grid_, c)
         cellIndex == ROWS - 1 - r
     IN IF cellIndex < Len(kept) THEN kept[Len(kept) - cellIndex] ELSE BlankCell]]

\* applyGravity of page.tsx (and of spelltower.ts), as the grid it leaves.
applyGravity(grid_) ==
  [r \in Rows |-> [c \in Cols |->
     LET kept == nonBlankCells(grid_, c)
         cellIndex == ROWS - 1 - r
     IN IF cellIndex < Len(kept) THEN kept[cellIndex + 1] ELSE BlankCell]]

\* value.toUpperCase().replace(/[^A-Z]/g, '').
sanitize(value) ==
  SelectSeq(toUpperCase(value), LAMBDA ch : \E i \in 1..26 : UpperCase[i] = ch)

\* The grid typed in: lines[k] is the row k-1 above the bottom one, a space
\* a cell never touched (as createEmptyGrid made it).
typedGrid(lines, red, starred) ==
  [r \in Rows |-> [c \in Cols |->
     LET k == ROWS - r
     IN IF k <= Len(lines) /\ c + 1 <= Len(lines[k]) /\ lines[k][c + 1] # " "
          THEN [letter |-> lines[k][c + 1],
                type |-> IF <<r, c>> \in red THEN "red"
                         ELSE IF <<r, c>> \in starred THEN "starred"
                         ELSE "letter"]
          ELSE createEmptyGrid[r][c]]]

\* "tacit" in the bottom row, junk tiles on every side of it and on its
\* diagonals, and two tiles stacked above the junk.
TacitBoard ==
  typedGrid(<< <<"X","T","A","C","I","T","X">>,
               <<"J","X","X","X","X","X","J">>,
               <<" ","Z">>,
               <<" ","J">> >>,
            {}, {<<ROWS - 4, 1>>})

\* "cat" down two columns that do not touch, the A of the first red and the
\* A of the second starred, and a junk tile that floats in the red A's row.
TwoColumnsBoard ==
  typedGrid(<< <<"T"," ","T">>,
               <<"A"," ","A"," ","X">>,
               <<"C"," ","C">> >>,
            {<<ROWS - 2, 0>>}, {<<ROWS - 2, 2>>})

\* The grids the page starts from: the one of createEmptyGrid, or one saved
\* by an earlier session and loaded on mount.
SavedGrids == {createEmptyGrid, TacitBoard, TwoColumnsBoard}

\* The word file of the page, or a failed fetch.
PageResponses ==
  { [ok |-> TRUE,
     lines |-> << <<"t","a","c","t">>, <<"C","a","t"," ">>, <<"a","c","t">>,
                  <<>>, <<"a","t">>, <<"t","a","c","i","t">> >>],
    [ok |-> FALSE, lines |-> <<>>] }

\* The cells edited and the values typed into them.
EditCells == {<<ROWS - 1, 0>>}
EditValues == {<<" ">>, <<"a">>}
CellTypes == {"letter", "red", "starred", "blank"}

Init ==
  /\ pc = "idle"
  /\ grid \in SavedGrids
  /\ response \in PageResponses
  /\ sortedDictionary = NULL
  /\ result = NULL
  /\ InitialState
  /\ loader = NULL
  /\ wordnik = NULL
  /\ sourceText = NULL
  /\ memoku = NULL

\* handleCellLetterChange without setSolution(null).
HandleCellLetterChange_KeepSolution(row, col, value) ==
  /\ pc = "idle" /\ ~solving
  /\ edits < MaxEdits
  /\ grid' = IF value = <<" ">> THEN [grid EXCEPT ![row][col] = BlankCell]
             ELSE IF sanitize(value) # <<>>
               THEN [grid EXCEPT ![row][col] =
                       [letter |-> sanitize(value)[1],
                        type |-> IF @.type = "blank" THEN "letter" ELSE @.type]]
             ELSE [grid EXCEPT ![row][col] = BlankCell]
  /\ edits' = edits + 1
  /\ UNCHANGED <<pc, response, sortedDictionary, result, solving, selectedCellType,
                 selectedWord, hoveredWord, totalScore, history, historyIndex, pending,
                 solution>>
  /\ UNCHANGED greedyVars
  /\ UNCHANGED loader
  /\ UNCHANGED wordnik
  /\ UNCHANGED otherVars

\* onChange of a cell's input (the inputs are disabled while solving).
HandleCellLetterChange(row, col, value) ==
  /\ pc = "idle" /\ ~solving
  /\ edits < MaxEdits
  /\ grid' = IF value = <<" ">> THEN [grid EXCEPT ![row][col] = BlankCell]
             ELSE IF sanitize(value) # <<>>
               THEN [grid EXCEPT ![row][col] =
                       [letter |-> sanitize(value)[1],
                        type |-> IF @.type = "blank" THEN "letter" ELSE @.type]]
             ELSE [grid EXCEPT ![row][col] = BlankCell]
  /\ solution' = NULL
  /\ edits' = edits + 1
  /\ UNCHANGED <<pc, response, sortedDictionary, result, solving, selectedCellType,
                 selectedWord, hoveredWord, totalScore, history, historyIndex, pending>>
  /\ UNCHANGED greedyVars
  /\ UNCHANGED loader
  /\ UNCHANGED wordnik
  /\ UNCHANGED otherVars

\* onClick of a cell's input.
HandleCellClick(row, col) ==
  /\ pc = "idle" /\ ~solving
  /\ edits < MaxEdits
  /\ grid' = IF selectedCellType = "blank" THEN [grid EXCEPT ![row][col] = BlankCell]
             ELSE IF grid[row][col].letter # ""
               THEN [grid EXCEPT ![row][col].type = selectedCellType]
             ELSE grid
  /\ solution' = NULL
  /\ edits' = edits + 1
  /\ UNCHANGED <<pc, response, sortedDictionary, result, solving, selectedCellType,
                 selectedWord, hoveredWord, totalScore, history, historyIndex, pending>>
  /\ UNCHANGED greedyVars
  /\ UNCHANGED loader
  /\ UNCHANGED wordnik
  /\ UNCHANGED otherVars

\* onClick of a cell type button (the type is read by the cell clicks only).
SetSelectedCellType(type) ==
  /\ edits < MaxEdits
  /\ selectedCellType' = type
  /\ UNCHANGED <<pc, grid, response, sortedDictionary, result, solving, solution,
                 selectedWord, hoveredWord, totalScore, history, historyIndex,
                 pending, edits>>
  /\ UNCHANGED greedyVars
  /\ UNCHANGED loader
  /\ UNCHANGED wordnik
  /\ UNCHANGED otherVars

\* handleSolve, from the click to the end of its finally block: nothing the
\* user can do while it awaits changes what it reads or writes.
HandleSolve ==
  /\ pc = "idle" /\ ~solving
  /\ sortedDictionary' = loadSortedDictionary(sortedDictionary, response)
  /\ LET initialSolution ==
           [solveSpelltower(grid, sortedDictionary') EXCEPT !.totalScore = 0]
     IN /\ solution' = initialSolution
        /\ history' = << [grid |-> grid, solution |-> initialSolution, totalScore |-> 0] >>
  /\ historyIndex' = 0
  /\ selectedWord' = NULL
  /\ UNCHANGED <<pc, grid, response, result, solving, selectedCellType, hoveredWord,
                 totalScore, pending, edits>>
  /\ UNCHANGED greedyVars
  /\ UNCHANGED loader
  /\ UNCHANGED wordnik
  /\ UNCHANGED otherVars

\* onClick of the idx-th word of the list.
SetSelectedWord(idx) ==
  /\ solution # NULL
  /\ idx \in 1..Len(solution.sequence)
  /\ selectedWord' = solution.sequence[idx]
  /\ UNCHANGED <<pc, grid, response, sortedDictionary, result, solving, solution,
                 selectedCellType, hoveredWord, totalScore, history, historyIndex,
                 pending, edits>>
  /\ UNCHANGED greedyVars
  /\ UNCHANGED loader
  /\ UNCHANGED wordnik
  /\ UNCHANGED otherVars

\* onMouseEnter of the idx-th word of the list.
SetHoveredWord(idx) ==
  /\ solution # NULL
  /\ idx \in 1..Len(solution.sequence)
  /\ hoveredWord' = solution.sequence[idx]
  /\ UNCHANGED <<pc, grid, response, sortedDictionary, result, solving, solution,
                 selectedCellType, selectedWord, totalScore, history, historyIndex,
                 pending, edits>>
  /\ UNCHANGED greedyVars
  /\ UNCHANGED loader
  /\ UNCHANGED wordnik
  /\ UNCHANGED otherVars

\* onMouseLeave of the hovered word.
ClearHoveredWord ==
  /\ solution # NULL
  /\ hoveredWord # NULL
  /\ hoveredWord' = NULL
  /\ UNCHANGED <<pc, grid, response, sortedDictionary, result, solving, solution,
                 selectedCellType, selectedWord, totalScore, history, historyIndex,
                 pending, edits>>
  /\ UNCHANGED greedyVars
  /\ UNCHANGED loader
  /\ UNCHANGED wordnik
  /\ UNCHANGED otherVars

\* handleUseWord up to its await: the tiles removed, gravity applied.
HandleUseWord ==
  /\ pc = "idle" /\ ~solving
  /\ selectedWord # NULL /\ solution # NULL
  /\ LET clearCells == getAdjacentClearCells(grid, getActiveWord(hoveredWord, selectedWord))
         newGrid == applyGravity(removeCells(removeCells(grid, selectedWord.path), clearCells))
     IN pending' = [selectedWord |-> selectedWord,
                    clearCells |-> clearCells,
                    newGrid |-> newGrid,
                    newTotalScore |-> totalScore + selectedWord.score]
  /\ solving' = TRUE
  /\ pc' = "useWord"
  /\ UNCHANGED <<grid, response, sortedDictionary, result, solution, selectedCellType,
                 selectedWord, hoveredWord, totalScore, history, historyIndex, edits>>
  /\ UNCHANGED greedyVars
  /\ UNCHANGED loader
  /\ UNCHANGED wordnik
  /\ UNCHANGED otherVars

\* newHistory without the slice: the new state after all the entries.
newHistoryOf_KeepFuture(history_, historyIndex_, newState) ==
  Append(history_, newState)

\* newHistory of handleUseWord: history.slice(0, historyIndex + 1) with the
\* new state pushed.
newHistoryOf(history_, historyIndex_, newState) ==
  Append(SubSeq(history_, 1, historyIndex_ + 1), newState)

\* handleUseWord from the answer of the solver on: history and historyIndex
\* are those of the click, which nothing changes while solving.
HandleUseWordResolved ==
  /\ pc = "useWord"
  /\ sortedDictionary' = loadSortedDictionary(sortedDictionary, response)
  /\ LET newSolution ==
           [solveSpelltower(pending.newGrid, sortedDictionary')
              EXCEPT !.totalScore = pending.newTotalScore]
         newState == [grid |-> pending.newGrid,
                      solution |-> newSolution,
                      totalScore |-> pending.newTotalScore]
         newHistory == newHistoryOf(history, historyIndex, newState)
     IN /\ history' = newHistory
        /\ historyIndex' = Len(newHistory) - 1
        /\ solution' = newSolution
  /\ grid' = pending.newGrid
  /\ totalScore' = pending.newTotalScore
  /\ selectedWord' = NULL
  /\ solving' = FALSE
  /\ pending' = NULL
  /\ pc' = "idle"
  /\ UNCHANGED <<response, result, selectedCellType, hoveredWord, edits>>
  /\ UNCHANGED greedyVars
  /\ UNCHANGED loader
  /\ UNCHANGED wordnik
  /\ UNCHANGED otherVars

\* The state the history handlers read and write.
pageState ==
  [grid |-> grid, solution |-> solution, totalScore |-> totalScore,
   selectedWord |-> selectedWord, history |-> history, historyIndex |-> historyIndex]

\* handleUndo: the state it leaves.
handleUndo(st) ==
  IF st.historyIndex <= 0 THEN st
  ELSE LET previousState == st.history[st.historyIndex]
       IN [st EXCEPT !.grid = previousState.grid,
                     !.solution = previousState.solution,
                     !.totalScore = previousState.totalScore,
                     !.selectedWord = NULL,
                     !.historyIndex = @ - 1]

\* handleRedo: the state it leaves.
handleRedo(st) ==
  IF st.historyIndex >= Len(st.history) - 1 THEN st
  ELSE LET nextState == st.history[st.historyIndex + 2]
       IN [st EXCEPT !.grid = nextState.grid,
                     !.solution = nextState.solution,
                     !.totalScore = nextState.totalScore,
                     !.selectedWord = NULL,
                     !.historyIndex = @ + 1]

\* onClick of Undo (disabled while solving and at historyIndex <= 0).
HandleUndo ==
  /\ pc = "idle" /\ ~solving
  /\ historyIndex > 0
  /\ \E st \in {handleUndo(pageState)} :
       /\ grid' = st.grid
       /\ solution' = st.solution
       /\ totalScore' = st.totalScore
       /\ selectedWord' = st.selectedWord
       /\ historyIndex' = st.historyIndex
  /\ UNCHANGED <<pc, response, sortedDictionary, result, solving, selectedCellType,
                 hoveredWord, history, pending, edits>>
  /\ UNCHANGED greedyVars
  /\ UNCHANGED loader
  /\ UNCHANGED wordnik
  /\ UNCHANGED otherVars

\* onClick of Redo (disabled while solving and at the last entry).
HandleRedo ==
  /\ pc = "idle" /\ ~solving
  /\ historyIndex < Len(history) - 1
  /\ \E st \in {handleRedo(pageState)} :
       /\ grid' = st.grid
       /\ solution' = st.solution
       /\ totalScore' = st.totalScore
       /\ selectedWord' = st.selectedWord
       /\ historyIndex' = st.historyIndex
  /\ UNCHANGED <<pc, response, sortedDictionary, result, solving, selectedCellType,
                 hoveredWord, history, pending, edits>>
  /\ UNCHANGED greedyVars
  /\ UNCHANGED loader
  /\ UNCHANGED wordnik
  /\ UNCHANGED otherVars

HandleClear ==
  /\ pc = "idle" /\ ~solving
  /\ grid' = createEmptyGrid
  /\ solution' = NULL
  /\ selectedWord' = NULL
  /\ totalScore' = 0
  /\ history' = <<>>
  /\ historyIndex' = -1
  /\ UNCHANGED <<pc, response, sortedDictionary, result, solving, selectedCellType,
                 hoveredWord, pending, edits>>
  /\ UNCHANGED greedyVars
  /\ UNCHANGED loader
  /\ UNCHANGED wordnik
  /\ UNCHANGED otherVars

\* The positions of the words listed.
WordIndices == IF solution = NULL THEN {} ELSE 1..Len(solution.sequence)

Next ==
  \/ \E p \in EditCells, value \in EditValues : HandleCellLetterChange(p[1], p[2], value)
  \/ \E p \in EditCells : HandleCellClick(p[1], p[2])
  \/ \E type \in CellTypes : SetSelectedCellType(type)
  \/ HandleSolve
  \/ \E idx \in WordIndices : SetSelectedWord(idx)
  \/ \E idx \in WordIndices : SetHoveredWord(idx)
  \/ ClearHoveredWord
  \/ HandleUseWord
  \/ HandleUseWordResolved
  \/ HandleUndo
  \/ HandleRedo
  \/ HandleClear

Spec == Init /\ [][Next]_vars

---------------------------------------------------------------------------
(* A play on the page: while handleUseWord awaits the solver, grid is the   *)
(* grid the word was played on and pending holds what the play computed.    *)

\* The word played.
Played == pending.selectedWord

\* The cells the play set to blank: the path of the word and the bonus cells.
ClearedByPlay ==
  PathCells(Played.path) \cup {pending.clearCells[i] : i \in 1..Len(pending.clearCells)}

\* The in-bounds 4-directional neighbours of the cells of a path.
Neighbours4(path) ==
  {q \in [row : Rows, col : Cols] :
     \E p \in PathCells(path) : absDiff(p.row, q.row) + absDiff(p.col, q.col) = 1}

\* The cells of the rows in which a path has a red cell.
RedRows(path) ==
  {q \in [row : Rows, col : Cols] :
     \E p \in PathCells(path) : cellAt(p).type = "red" /\ p.row = q.row}

\* C8: when a word is played, every in-bounds 4-directional neighbour of its
\* path is cleared if the word has 5 letters or more; a word of 3 or 4
\* letters clears no neighbour by this rule, and no cell is cleared that is
\* neither on the path, nor such a neighbour of a word of 5 letters or more,
\* nor in the row of a red cell of the path (no diagonal neighbour).
C8_AdjacencyBonus ==
  pc = "useWord" =>
    /\ Len(Played.word) >= 5 => Neighbours4(Played.path) \subseteq ClearedByPlay
    /\ ClearedByPlay \subseteq
         PathCells(Played.path) \cup RedRows(Played.path)
           \cup (IF Len(Played.word) >= 5 THEN Neighbours4(Played.path) ELSE {})

\* C9: when the path of the word played has a red cell in row r, every cell
\* of row r is cleared by the play, whatever the length of the word.
C9_RedRowCleared ==
  pc = "useWord" =>
    \A p \in PathCells(Played.path) :
      cellAt(p).type = "red" =>
        \A c \in Cols : [row |-> p.row, col |-> c] \in ClearedByPlay

\* A cell gravity keeps: it holds a letter and its type is not 'blank'.
isTile(cell) == cell.type # "blank" /\ cell.letter # ""

\* The tiles of column c of a grid outside the set S, from the top down.
ColumnTiles(g, c, S) ==
  LET at == SelectSeq([r \in 1..ROWS |-> [row |-> r - 1, col |-> c]],
                      LAMBDA p : isTile(g[p.row][p.col]) /\ p \notin S)
  IN [i \in 1..Len(at) |-> g[at[i].row][c]]

\* C10: after a word is applied, the tiles of every column read from the top
\* down are the tiles the column had before, the cleared ones left out, in
\* the same order and with the same letter and type; they fill the bottom
\* rows of the column and every cell above them is blank.  (A tile is a
\* cell with a letter whose type is not 'blank', as applyGravity reads it.)
C10_GravityKeepsColumns ==
  pc = "useWord" =>
    \A c \in Cols :
      LET before == ColumnTiles(grid, c, ClearedByPlay)
          after == ColumnTiles(pending.newGrid, c, {})
          top == ROWS - Len(before)
      IN /\ after = before
         /\ \A r \in Rows :
              pending.newGrid[r][c] =
                IF r >= top THEN before[r - top + 1] ELSE BlankCell

\* A play cleared the bottom of a column and left two different tiles of it,
\* which fell.
C10_Witness ==
  /\ pc = "useWord"
  /\ \E c \in Cols :
       LET before == ColumnTiles(grid, c, ClearedByPlay)
       IN /\ Len(before) >= 2
          /\ before[1] # before[2]
          /\ [row |-> ROWS - 1, col |-> c] \in ClearedByPlay
          /\ pending.newGrid[ROWS - 1][c] = before[Len(before)]

---------------------------------------------------------------------------
(* Gravity on the grids of the page.                                        *)

\* No tile of the grid has a cell without a tile below it.
Settled(g) ==
  \A c \in Cols : \A r \in Rows :
    isTile(g[r][c]) => \A below \in Rows : below > r => isTile(g[below][c])

\* C11: gravity is idempotent: applied to a settled grid it returns a grid
\* equal cell for cell to the one given, and applied twice to any grid it
\* returns what it returns applied once.
C11_GravityIdempotent ==
  /\ Settled(grid) => applyGravity(grid) = grid
  /\ applyGravity(applyGravity(grid)) = applyGravity(grid)

---------------------------------------------------------------------------
(* The greedy solver of src/unnamed/part_006: it validates words through    *)
(* isValidWord of wordnik.ts over the word set of dictionary.ts, and plays  *)
(* the highest-scoring word until the grid is empty or no word is left.     *)

MAX_ITERATIONS == 50

\* A Set object of the given values.
newSet(values) == [values |-> values]

\* loadDictionary of dictionary.ts: the word set when one is set (an empty
\* Set is truthy), else the words of the file, or the empty set when the
\* fetch fails.
loadDictionary(cache, resp) ==
  IF cache # NULL THEN cache
  ELSE IF ~resp.ok THEN newSet({})
  ELSE newSet({parseWords(resp.lines)[i] : i \in 1..Len(parseWords(resp.lines))})

isValidWordLocal(dictionary, word) == toLowerCase(word) \in dictionary.values

\* isValidWord that accepts every word.
isValidWord_Always(cache, dictionary, word) == TRUE

\* isValidWord(word) with useWordnik = false: the cached answer when the
\* lower-cased word has one, else the answer of the local dictionary.
isValidWord(cache, dictionary, word) ==
  IF toLowerCase(word) \in DOMAIN cache THEN cache[toLowerCase(word)]
  ELSE isValidWordLocal(dictionary, word)

\* The cache after isValidWord was called for each of the words.
cacheAfter(cache, dictionary, words) ==
  LET asked == {toLowerCase(w) : w \in words}
  IN [w \in (DOMAIN cache) \cup asked |->
        IF w \in DOMAIN cache THEN cache[w] ELSE w \in dictionary.values]

\* The WordPath findWordsFromPosition pushes: length squared, and with any
\* starred tile on the path twice the length squared.
greedyWordPath(grid_, newWord, newPath) ==
  LET hasRedTile == \E i \in 1..Len(newPath) : grid_[newPath[i].row][newPath[i].col].type = "red"
      hasStarredTile == \E i \in 1..Len(newPath) : grid_[newPath[i].row][newPath[i].col].type = "starred"
  IN [word |-> newWord, path |-> newPath,
      score |-> IF hasStarredTile THEN Len(newWord) * Len(newWord) * 2
                ELSE Len(newWord) * Len(newWord),
      hasRedTile |-> hasRedTile, hasStarredTile |-> hasStarredTile]

\* dfs of findWordsFromPosition: the paths of at least minLength cells it
\* walks from (row, col) on, in the order it walks them.  No path is walked
\* twice from one start, so the test visited.has(pathKey) never holds.
RECURSIVE dfs(_, _, _, _, _)
dfs(grid_, row, col, currentWord, path) ==
  IF \E i \in 1..Len(path) : path[i] = [row |-> row, col |-> col] THEN <<>>
  ELSE IF grid_[row][col].type = "blank" \/ grid_[row][col].letter = "" THEN <<>>
  ELSE LET newWord == Append(currentWord, grid_[row][col].letter)
           newPath == Append(path, [row |-> row, col |-> col])
           adjacent == getAdjacentCells(row, col)
           own == IF Len(newWord) >= 3
                    THEN << [word |-> newWord, path |-> newPath] >> ELSE <<>>
       IN IF Len(newWord) < 15
            THEN own \o flatten([k \in 1..Len(adjacent) |->
                                   dfs(grid_, adjacent[k].row, adjacent[k].col,
                                       newWord, newPath)],
                                Len(adjacent))
            ELSE own

\* Every path the searches of findAllWords walk, start cell by start cell
\* (a start cell without a letter gives none).
walkedPaths(grid_) ==
  LET cells == startCells(grid_)
  IN flatten([k \in 1..Len(cells) |->
                dfs(grid_, cells[k].row, cells[k].col, <<>>, <<>>)],
             Len(cells))

\* Array.prototype.sort((a, b) => b.score - a.score), which is stable.
RECURSIVE insertByScore(_, _)
insertByScore(sorted, w) ==
  IF sorted = <<>> THEN <<w>>
  ELSE IF Head(sorted).score - w.score < 0 THEN <<w>> \o sorted
  ELSE <<Head(sorted)>> \o insertByScore(Tail(sorted), w)

RECURSIVE sortByScore(_)
sortByScore(ws) ==
  IF ws = <<>> THEN <<>>
  ELSE insertByScore(sortByScore(SubSeq(ws, 1, Len(ws) - 1)), ws[Len(ws)])

\* The loop of findAllWords over wordsFromHere: a path is kept the first
\* time it is seen (seenWords holds the keys of the paths).
RECURSIVE unseenPaths(_)
unseenPaths(ws) ==
  IF ws = <<>> THEN <<>>
  ELSE LET before == unseenPaths(SubSeq(ws, 1, Len(ws) - 1))
           w == ws[Len(ws)]
       IN IF \E j \in 1..Len(before) : before[j].path = w.path
            THEN before ELSE Append(before, w)

\* findAllWords of the greedy solver: the walked paths whose word is valid,
\* each path once (seenWords), sorted by score, highest first.
greedyFindAllWords(grid_, cache, dictionary) ==
  LET valid == SelectSeq(walkedPaths(grid_),
                         LAMBDA w : isValidWord(cache, dictionary, w.word))
      allWords == unseenPaths(valid)
  IN sortByScore([i \in 1..Len(allWords) |->
                    greedyWordPath(grid_, allWords[i].word, allWords[i].path)])

\* cellsToClear without the cells of the path.
cellsToClear_WithoutPath(grid_, wordPath) ==
  LET onPath == {wordPath.path[i] : i \in 1..Len(wordPath.path)}
      redRows == IF wordPath.hasRedTile
                   THEN {[row |-> p.row, col |-> c] :
                           p \in {q \in onPath : grid_[q.row][q.col].type = "red"},
                           c \in Cols}
                   ELSE {}
      around == UNION {{getAdjacentCells(p.row, p.col)[k] :
                          k \in 1..Len(getAdjacentCells(p.row, p.col))} : p \in onPath}
      bonus == IF Len(wordPath.word) > 4 THEN around
               ELSE {q \in around : grid_[q.row][q.col].type = "blank"}
  IN (redRows \cup bonus) \ onPath

\* The cells clearWordAndApplyGravity marks: the path, the rows of its red
\* cells when the word has a red tile, all 8 neighbours of the path for a
\* word of more than 4 letters, and for a shorter word the neighbours of
\* type 'blank'.
cellsToClear(grid_, wordPath) ==
  LET onPath == {wordPath.path[i] : i \in 1..Len(wordPath.path)}
      redRows == IF wordPath.hasRedTile
                   THEN {[row |-> p.row, col |-> c] :
                           p \in {q \in onPath : grid_[q.row][q.col].type = "red"},
                           c \in Cols}
                   ELSE {}
      around == UNION {{getAdjacentCells(p.row, p.col)[k] :
                          k \in 1..Len(getAdjacentCells(p.row, p.col))} : p \in onPath}
      bonus == IF Len(wordPath.word) > 4 THEN around
               ELSE {q \in around : grid_[q.row][q.col].type = "blank"}
  IN onPath \cup redRows \cup bonus

\* The grid clearWordAndApplyGravity returns: the marked cells blank, then
\* every column compacted downwards.
clearWordAndApplyGravity(grid_, wordPath) ==
  LET marked == cellsToClear(grid_, wordPath)
      cleared == [r \in Rows |-> [c \in Cols |->
                    IF [row |-> r, col |-> c] \in marked THEN BlankCell ELSE grid_[r][c]]]
  IN [r \in Rows |-> [c \in Cols |->
        LET column == nonBlankCells(cleared, c)
            idx == ROWS - 1 - r
        IN IF idx < Len(column) THEN column[idx + 1] ELSE BlankCell]]

isGridEmpty(grid_) ==
  \A r \in Rows, c \in Cols : ~(grid_[r][c].type # "blank" /\ grid_[r][c].letter # "")

\* A grid array as a caller or the solver holds it: its cells, and whether
\* it is the very array the caller of solveSpelltower passed in.
callersArray(grid_) == [cells |-> grid_, callers |-> TRUE]

\* copyGrid that hands back the array it was given.
copyGrid_SameArray(array) == array

\* copyGrid: a new array of new rows of new cells.
copyGrid(array) == [cells |-> array.cells, callers |-> FALSE]

\* The grid with every letterless cell blank, as the createEmptyGrid of the
\* greedy solver makes them.
onBlank(g) ==
  [r \in Rows |-> [c \in Cols |-> IF g[r][c].letter = "" THEN BlankCell ELSE g[r][c]]]

\* "CAT" and "ACT" in the bottom row, a gap between them.
TwoWordsCells == {<<ROWS - 1, c>> : c \in {0, 1, 2, 4, 5, 6}}
TwoWordsLetters ==
  [p \in TwoWordsCells |-> <<"C","A","T"," ","A","C","T">>[p[2] + 1]]

\* "TACIT" in the bottom row with a junk tile above its I and one above
\* that, the first T starred.
TacitRow ==
  onBlank(typedGrid(<< <<"T","A","C","I","T">>,
                       <<" "," "," ","X">>,
                       <<" "," "," ","J">> >>,
                    {}, {<<ROWS - 1, 0>>}))

\* "CAT" in the bottom row, its C starred, and "ACT" two rows above it.
TwoRows ==
  onBlank(typedGrid(<< <<"C","A","T">>,
                       <<" "," "," ">>,
                       <<"A","C","T">> >>,
                    {}, {<<ROWS - 1, 0>>}))

\* The boards handed to the greedy solver: the fixed lettering of the region
\* and the two words of the bottom row with tiles of several kinds, the row of
\* "tacit" and the two rows.
IsGreedyBoard(g) ==
  \/ \E S \in TileSets : \E k \in [S -> TileKinds] :
       g = gridOf(S, [p \in S |-> [letter |-> BaseLetters[p], type |-> k[p]]])
  \/ \E k \in [{p \in TwoWordsCells : p[2] <= 2} -> TileKinds] :
     \E second \in {"letter", "starred"} :
       g = gridOf(TwoWordsCells,
                  [p \in TwoWordsCells |->
                     [letter |-> TwoWordsLetters[p],
                      type |-> IF p[2] <= 2 THEN k[p]
                               ELSE IF p[2] = 4 THEN second ELSE "letter"]])
  \/ g = TacitRow
  \/ g = TwoRows

GreedyInit ==
  /\ pc = "greedy"
  /\ IsGreedyBoard(grid)
  /\ response \in PageResponses
  /\ sortedDictionary = NULL
  /\ result = NULL
  /\ InitialState
  /\ loader = NULL
  /\ wordnik = NULL
  /\ sourceText = NULL
  /\ memoku = NULL

\* solveSpelltower down to its loop.
GreedyStart ==
  /\ pc = "greedy"
  /\ run' = [sequence |-> <<>>,
             currentGrid |-> copyGrid(callersArray(grid)),
             totalScore |-> 0,
             iterations |-> 0]
  /\ pc' = "loop"
  /\ UNCHANGED <<grid, response, sortedDictionary, result, wordSet, wordCache>>
  /\ UNCHANGED pageVars
  /\ UNCHANGED loader
  /\ UNCHANGED wordnik
  /\ UNCHANGED otherVars

\* One turn of the while loop: the words of the current grid are found
\* (which loads the word set at the first lookup the cache cannot answer),
\* and the first of them is played, or the loop is left when there is none.
\* A write into an array that is the caller's changes the caller's grid.
GreedyIterate ==
  /\ pc = "loop"
  /\ ~isGridEmpty(run.currentGrid.cells)
  /\ run.iterations < MAX_ITERATIONS
  /\ \E walked \in {walkedPaths(run.currentGrid.cells)} :
       LET asked == {walked[i].word : i \in 1..Len(walked)}
       IN /\ wordSet' = IF \E w \in asked : toLowerCase(w) \notin DOMAIN wordCache
                           THEN loadDictionary(wordSet, response) ELSE wordSet
          /\ wordCache' = cacheAfter(wordCache, wordSet', asked)
  /\ \E availableWords \in {greedyFindAllWords(run.currentGrid.cells, wordCache, wordSet')} :
       IF Len(availableWords) = 0
         THEN /\ run' = [run EXCEPT !.iterations = @ + 1]
              /\ pc' = "return"
              /\ grid' = grid
         ELSE \E bestWord \in {availableWords[1]} :
              \E newGrid \in {copyGrid(run.currentGrid)} :
              \E cells \in {clearWordAndApplyGravity(newGrid.cells, bestWord)} :
                /\ run' = [sequence |-> Append(run.sequence, bestWord),
                           currentGrid |-> [newGrid EXCEPT !.cells = cells],
                           totalScore |-> run.totalScore + bestWord.score,
                           iterations |-> run.iterations + 1]
                /\ pc' = "loop"
                /\ grid' = IF newGrid.callers THEN cells ELSE grid
  /\ UNCHANGED <<response, sortedDictionary, result>>
  /\ UNCHANGED pageVars
  /\ UNCHANGED loader
  /\ UNCHANGED wordnik
  /\ UNCHANGED otherVars

\* The loop is over: the solution is returned (run keeps the last locals).
GreedyReturn ==
  /\ \/ pc = "return"
     \/ /\ pc = "loop"
        /\ isGridEmpty(run.currentGrid.cells) \/ run.iterations >= MAX_ITERATIONS
  /\ result' = [sequence |-> run.sequence,
                totalScore |-> run.totalScore,
                clearedAll |-> isGridEmpty(run.currentGrid.cells)]
  /\ pc' = "done"
  /\ UNCHANGED <<grid, response, sortedDictionary, wordSet, wordCache, run>>
  /\ UNCHANGED pageVars
  /\ UNCHANGED loader
  /\ UNCHANGED wordnik
  /\ UNCHANGED otherVars

GreedyNext == GreedyStart \/ GreedyIterate \/ GreedyReturn

GreedySpec == GreedyInit /\ [][GreedyNext]_vars

\* The loop has just played a word.
Applied == pc = "loop" /\ run # NULL /\ Len(run.sequence) >= 1

\* A step of the loop that plays a word.
ApplyingStep ==
  pc = "loop" /\ pc' = "loop" /\ Len(run'.sequence) = Len(run.sequence) + 1

tileCount(g) == Cardinality({p \in Rows \X Cols : isTile(g[p[1]][p[2]])})

\* What is left of a call of solveSpelltower: two for each non-blank cell
\* the loop still has before it, and the steps around the loop.
remaining ==
  IF pc = "greedy" THEN 2 * tileCount(grid) + 3
  ELSE IF pc = "loop" THEN 2 * tileCount(run.currentGrid.cells) + 2
  ELSE IF pc = "return" THEN 1
  ELSE 0

\* C13: solve terminates on every board: each step that plays a word leaves
\* strictly fewer non-blank cells, so no more words are played than the
\* board given has non-blank cells, the loop never goes round more than
\* MAX_ITERATIONS times, and every step of the call lowers what remains of
\* it, which is 0 only at the return.
C13_Terminates ==
  /\ [][ApplyingStep =>
          tileCount(run'.currentGrid.cells) < tileCount(run.currentGrid.cells)]_vars
  /\ [][remaining' < remaining]_vars
  /\ [](/\ remaining >= 0
        /\ remaining = 0 <=> pc = "done"
        /\ run # NULL =>
             /\ Len(run.sequence) <= tileCount(grid)
             /\ Len(run.sequence) <= run.iterations
             /\ run.iterations <= MAX_ITERATIONS)

C13_Witness == pc = "done" /\ Len(result.sequence) >= 2

\* The WordPath lies on the grid: a simple path of non-blank cells, each
\* step to one of the 8 neighbours, that spells its word, a word of the file
\* of at least 3 letters.
FoundOn(g, wp) ==
  /\ Len(wp.word) >= 3
  /\ Len(wp.path) = Len(wp.word)
  /\ \A i, j \in 1..Len(wp.path) : i # j => wp.path[i] # wp.path[j]
  /\ \A i \in 1..(Len(wp.path) - 1) : Adjacent8(wp.path[i], wp.path[i + 1])
  /\ \A i \in 1..Len(wp.path) :
       /\ isTile(g[wp.path[i].row][wp.path[i].col])
       /\ wp.word[i] = g[wp.path[i].row][wp.path[i].col].letter
  /\ toLowerCase(wp.word) \in Lexicon

scoresOf(sequence) == [i \in 1..Len(sequence) |-> sequence[i].score]

finalBoard == IF run # NULL THEN run.currentGrid.cells ELSE grid

\* C15: clearedAll of the Solution returned is true exactly when no non-blank
\* cell remains on the board at the end of the solve.
C15_ClearedAllExact ==
  pc = "done" => (result.clearedAll <=> tileCount(finalBoard) = 0)

\* C16: the candidate list the solver hands back is ordered by score,
\* highest first, so that the word chosen first has the maximal score among
\* the candidates found on the board.
C16_OrderedByScore ==
  pc = "done" /\ run = NULL =>
    \A i, j \in 1..Len(Found) : i < j => Found[i].score >= Found[j].score

\* C17: in every board the page reaches from createEmptyGrid() by letter
\* edits, cell clicks, word plays, undo, redo and clear, a cell is of type
\* 'blank' if and only if it has no letter.
C17_BlankIffNoLetter ==
  \A r \in Rows : \A c \in Cols : grid[r][c].type = "blank" <=> grid[r][c].letter = ""

\* C18: createEmptyGrid() is a board of 13 rows of 9 cells, each of type
\* 'blank' with no letter, and every board derived from it still has 13 rows
\* of 9 cells.
C18_EmptyBoardAllBlank ==
  /\ DOMAIN createEmptyGrid = 0..12
  /\ \A r \in DOMAIN createEmptyGrid :
       /\ DOMAIN createEmptyGrid[r] = 0..8
       /\ \A c \in DOMAIN createEmptyGrid[r] :
            createEmptyGrid[r][c] = [letter |-> "", type |-> "blank"]
  /\ DOMAIN grid = 0..12
  /\ \A r \in DOMAIN grid : DOMAIN grid[r] = 0..8

----------------------------------------------------------------------------
(* solveSpelltower of spelltower.ts called with a grid of any dimensions,   *)
(* as JSON.parse of the saved grid may hand one to the page.                *)

\* The row counts and the column counts of the grids given.
SavedRowCounts == {ROWS - 1, ROWS, ROWS + 1}
SavedColCounts == {COLS - 1, COLS, COLS + 1}

\* The tiles of the grids given: a word in the top row, in the bottom row of
\* a 13-row grid, in a 14th row, and across the 9th and 10th columns.
SavedTiles ==
  { [p \in {<<0, c>> : c \in 0..2} |-> <<"C","A","T">>[p[2] + 1]],
    [p \in {<<ROWS - 1, c>> : c \in 0..2} |-> <<"C","A","T">>[p[2] + 1]],
    [p \in {<<ROWS, c>> : c \in 0..2} |-> <<"C","A","T">>[p[2] + 1]],
    [p \in {<<0, c>> : c \in (COLS - 2)..COLS} |-> <<"C","A","T">>[p[2] - COLS + 3]] }

\* The grid of the given numbers of rows and columns with the tiles that
\* fall inside it.
sizedGrid(rows, cols, letters) ==
  [r \in 0..(rows - 1) |-> [c \in 0..(cols - 1) |->
     IF <<r, c>> \in DOMAIN letters
       THEN [letter |-> letters[<<r, c>>], type |-> "letter"]
       ELSE BlankCell]]

BoundaryInit ==
  /\ pc = "call"
  /\ \E rows \in SavedRowCounts : \E cols \in SavedColCounts :
       \E letters \in SavedTiles : grid = sizedGrid(rows, cols, letters)
  /\ response \in PageResponses
  /\ sortedDictionary = NULL
  /\ result = NULL
  /\ InitialState
  /\ loader = NULL
  /\ wordnik = NULL
  /\ sourceText = NULL
  /\ memoku = NULL

\* The rest of findAllWords when a cell it reads is not there: grid[row] is
\* undefined, or grid[row][col] is, and reading through it throws a
\* TypeError, with which the promise of solveSpelltower rejects.
SolveSpelltowerThrows ==
  /\ pc = "search"
  /\ ~readable(grid)
  /\ result' = [error |-> "TypeError"]
  /\ pc' = "done"
  /\ UNCHANGED <<grid, response, sortedDictionary>>
  /\ UNCHANGED pageVars
  /\ UNCHANGED loader
  /\ UNCHANGED wordnik
  /\ UNCHANGED otherVars
  /\ UNCHANGED greedyVars

BoundaryNext == LoadSortedDictionary \/ SolveSpelltower \/ SolveSpelltowerThrows

BoundarySpec == BoundaryInit /\ [][BoundaryNext]_vars

\* The board has 13 rows of 9 cells.
wellFormed(grid_) ==
  /\ DOMAIN grid_ = 0..12
  /\ \A r \in DOMAIN grid_ : DOMAIN grid_[r] = 0..8

\* C19: solve called with a board that has not 13 rows of 9 cells is
\* rejected with an error before any search or change of state: the word
\* list is not loaded for it, no search is begun, and what comes back is the
\* error, never a Solution.
C19_MalformedRejected ==
  ~wellFormed(grid) =>
    /\ sortedDictionary = NULL
    /\ pc # "search"
    /\ pc = "done" => "error" \in DOMAIN result

----------------------------------------------------------------------------
(* Calls of loadSortedDictionary of spelltower.ts that overlap: a call runs *)
(* to its first await, and goes on when its fetch has resolved.             *)

MaxCallers == 2
Callers == 1..MaxCallers

FailedFetch == [ok |-> FALSE, lines |-> <<>>]

\* The word files served: those of several words.
WordFiles == {r \in Responses : r.ok /\ Len(r.lines) > 1}

LoaderInit ==
  /\ pc = "loader"
  /\ grid = createEmptyGrid
  /\ response \in WordFiles
  /\ sortedDictionary = NULL
  /\ result = NULL
  /\ InitialState
  /\ loader = [calls |-> [c \in Callers |-> [pc |-> "idle"]],
               fetches |-> 0]
  /\ wordnik = NULL
  /\ sourceText = NULL
  /\ memoku = NULL

\* loadSortedDictionary() up to its first await: the cached array is
\* returned when there is one, else fetch('/words.txt') is sent.
CallLoadSortedDictionary(c) ==
  /\ loader # NULL
  /\ loader.calls[c].pc = "idle"
  /\ IF sortedDictionary # NULL
       THEN loader' = [loader EXCEPT
                         !.calls[c] = [pc |-> "returned", value |-> sortedDictionary]]
       ELSE loader' = [loader EXCEPT
                         !.calls[c] = [pc |-> "fetching"],
                         !.fetches = @ + 1]
  /\ UNCHANGED <<pc, grid, response, sortedDictionary, result>>
  /\ UNCHANGED pageVars
  /\ UNCHANGED greedyVars
  /\ UNCHANGED wordnik
  /\ UNCHANGED otherVars

\* The fetch of call c has resolved, with the file or with a failure: the
\* rest of loadSortedDictionary assigns the module's sortedDictionary and
\* returns it.
FetchResolved(c) ==
  /\ loader # NULL
  /\ loader.calls[c].pc = "fetching"
  /\ \E resp \in {response, FailedFetch} :
       /\ sortedDictionary' = loadSortedDictionary(NULL, resp)
       /\ loader' = [loader EXCEPT
                       !.calls[c] = [pc |-> "returned", value |-> sortedDictionary']]
  /\ UNCHANGED <<pc, grid, response, result>>
  /\ UNCHANGED pageVars
  /\ UNCHANGED greedyVars
  /\ UNCHANGED wordnik
  /\ UNCHANGED otherVars

\* The caller has used the answer and is free to call again.
CallerGoesOn(c) ==
  /\ loader # NULL
  /\ loader.calls[c].pc = "returned"
  /\ loader' = [loader EXCEPT !.calls[c] = [pc |-> "idle"]]
  /\ UNCHANGED <<pc, grid, response, sortedDictionary, result>>
  /\ UNCHANGED pageVars
  /\ UNCHANGED greedyVars
  /\ UNCHANGED wordnik
  /\ UNCHANGED otherVars

LoaderNext ==
  \E c \in Callers :
    CallLoadSortedDictionary(c) \/ FetchResolved(c) \/ CallerGoesOn(c)

LoaderSpec == LoaderInit /\ [][LoaderNext]_vars

\* C20: the lexicon is loaded once: however the calls overlap, the word
\* list is fetched at most one time, and every caller that has its answer
\* holds the lexicon as it is now, so that all callers observe the same
\* value and the value does not change once loaded.
C20_LoadedOnce ==
  /\ loader.fetches <= 1
  /\ \A c \in Callers :
       loader.calls[c].pc = "returned" => loader.calls[c].value = sortedDictionary

----------------------------------------------------------------------------
(* The two look-ups of spelltower.ts asked about strings of any case, once  *)
(* the dictionary is loaded.                                                *)

MaxQueryLen == 3
QueryChars == {"a", "c", "t", "C", "z"}

\* The strings asked about.
Queries == UNION {[1..n -> QueryChars] : n \in 0..MaxQueryLen}

LexiconInit ==
  /\ pc = "call"
  /\ grid = createEmptyGrid
  /\ response \in Responses
  /\ sortedDictionary = NULL
  /\ result = NULL
  /\ InitialState
  /\ loader = NULL
  /\ wordnik = NULL
  /\ sourceText = NULL
  /\ memoku = NULL

\* isValidPrefix(dictionary, s) and isWord(dictionary, s) with the loaded
\* dictionary, their answers kept with the string asked about.
Lookup(s) ==
  /\ pc = "search"
  /\ result' = [asked |-> s,
                hasPrefix |-> isValidPrefix(sortedDictionary, s),
                isWord |-> isWord(sortedDictionary, s)]
  /\ UNCHANGED <<pc, grid, response, sortedDictionary>>
  /\ UNCHANGED pageVars
  /\ UNCHANGED greedyVars
  /\ UNCHANGED loader
  /\ UNCHANGED wordnik
  /\ UNCHANGED otherVars

LexiconNext == LoadSortedDictionary \/ \E s \in Queries : Lookup(s)

LexiconSpec == LexiconInit /\ [][LexiconNext]_vars

\* C21: for the loaded lexicon and a string s in any letter case, hasPrefix
\* is true exactly when s is empty or some word of the lexicon starts with
\* s, isWord is true exactly when s is a word of the lexicon, case set
\* aside, and a word has every one of its prefixes accepted.
C21_LookupsCaseInsensitive ==
  pc = "search" /\ "asked" \in DOMAIN result =>
    LET s == toLowerCase(result.asked)
    IN /\ result.hasPrefix <=> (s = <<>> \/ \E w \in Lexicon : startsWith(w, s))
       /\ result.isWord <=> s \in Lexicon
       /\ result.isWord =>
            \A k \in 0..Len(result.asked) :
              isValidPrefix(sortedDictionary, SubSeq(result.asked, 1, k))

----------------------------------------------------------------------------
(* isValidWord of wordnik.ts called with and without useWordnik.            *)

MaxValidations == 3

\* The words asked about: one of the word file, one only Wordnik knows (in
\* two spellings), and one nobody knows.
AskedWords == { <<"c","a","t">>, <<"z","e","k">>, <<"Z","e","k">>, <<"q","q","q">> }

\* The words Wordnik has definitions for.
WordnikWords == { <<"c","a","t">>, <<"z","e","k">> }

\* What the request to the API comes to: definitions, none, or a failure of
\* the fetch.
wordnikReplies(normalizedWord) ==
  {IF normalizedWord \in WordnikWords THEN "definitions" ELSE "notFound", "failed"}

WordnikInit ==
  /\ pc = "wordnik"
  /\ grid = createEmptyGrid
  /\ response \in PageResponses
  /\ sortedDictionary = NULL
  /\ result = NULL
  /\ InitialState
  /\ loader = NULL
  /\ wordnik \in [apiKey : BOOLEAN, requests : {0}, validations : {0}]
  /\ sourceText = NULL
  /\ memoku = NULL

\* isValidWord(word, useWordnik): the cached answer; else the local
\* dictionary, which is loaded at its first use; else, with useWordnik and
\* an API key, the answer of Wordnik, cached unless the fetch failed.
IsValidWord(word, useWordnik) ==
  /\ pc = "wordnik"
  /\ wordnik.validations < MaxValidations
  /\ LET normalizedWord == toLowerCase(word)
     IN IF normalizedWord \in DOMAIN wordCache
          THEN /\ result' = [word |-> word, useWordnik |-> useWordnik,
                             value |-> wordCache[normalizedWord], request |-> "none"]
               /\ wordnik' = [wordnik EXCEPT !.validations = @ + 1]
               /\ UNCHANGED <<wordSet, wordCache>>
          ELSE /\ wordSet' = loadDictionary(wordSet, response)
               /\ IF isValidWordLocal(wordSet', normalizedWord)
                    THEN /\ wordCache' = cacheAfter(wordCache, wordSet', {normalizedWord})
                         /\ result' = [word |-> word, useWordnik |-> useWordnik,
                                       value |-> TRUE, request |-> "none"]
                         /\ wordnik' = [wordnik EXCEPT !.validations = @ + 1]
                    ELSE IF ~useWordnik \/ ~wordnik.apiKey
                      THEN /\ wordCache' = cacheAfter(wordCache, wordSet', {normalizedWord})
                           /\ result' = [word |-> word, useWordnik |-> useWordnik,
                                         value |-> FALSE, request |-> "none"]
                           /\ wordnik' = [wordnik EXCEPT !.validations = @ + 1]
                      ELSE \E reply \in wordnikReplies(normalizedWord) :
                             /\ wordCache' =
                                  IF reply = "failed" THEN wordCache
                                  ELSE [w \in DOMAIN wordCache \cup {normalizedWord} |->
                                          IF w = normalizedWord THEN reply = "definitions"
                                          ELSE wordCache[w]]
                             /\ result' = [word |-> word, useWordnik |-> useWordnik,
                                           value |-> reply = "definitions",
                                           request |-> reply]
                             /\ wordnik' = [wordnik EXCEPT !.validations = @ + 1,
                                                           !.requests = @ + 1]
  /\ UNCHANGED <<pc, grid, response, sortedDictionary, run>>
  /\ UNCHANGED pageVars
  /\ UNCHANGED loader
  /\ UNCHANGED otherVars

WordnikNext == \E word \in AskedWords : \E useWordnik \in BOOLEAN : IsValidWord(word, useWordnik)

WordnikSpec == WordnikInit /\ [][WordnikNext]_vars

\* The words of the local dictionary.
LocalWords == IF wordSet = NULL THEN {} ELSE wordSet.values

\* C22: isValidWord(word, true) uses the local dictionary and then Wordnik:
\* whatever calls came before, with a key configured and the API answering,
\* a call with useWordnik for a word that the local dictionary lacks returns
\* what Wordnik says of the word; and a call without useWordnik sends no
\* request to the API.
C22_WordnikFallback ==
  "useWordnik" \in DOMAIN result =>
    /\ ( /\ result.useWordnik
         /\ wordnik.apiKey
         /\ result.request # "failed"
         /\ toLowerCase(result.word) \notin LocalWords )
       => result.value = (toLowerCase(result.word) \in WordnikWords)
    /\ ~result.useWordnik => result.request = "none"

---------------------------------------------------------------------------
(* The Wordbind solver of src/lib/solvers/wordbind.ts, which the Wordbind  *)
(* page imports.                                                           *)

\* normalizeSource: white space removed, upper case.
normalizeSource(text) == toUpperCase(SelectSeq(text, LAMBDA ch : ch # " "))

\* The first index j >= sourceIndex (0-based) with source[j] = char, or -1.
findFrom(source, sourceIndex, char) ==
  LET at == {j \in sourceIndex..(Len(source) - 1) : source[j + 1] = char}
  IN IF at = {} THEN -1 ELSE CHOOSE j \in at : \A k \in at : j <= k

\* The loop of canFormWord from letter i (0-based) with the given
\* sourceIndex: a double letter is looked for in the rest of the source
\* exactly as a regular letter is.
RECURSIVE canFormWordLoop(_, _, _, _, _)
canFormWordLoop(wordUpper, source, allowDouble, i, sourceIndex) ==
  IF i >= Len(wordUpper) THEN TRUE
  ELSE LET char == wordUpper[i + 1]
           j == findFrom(source, sourceIndex, char)
       IN IF i > 0 /\ char = wordUpper[i] /\ allowDouble
            THEN IF j = -1 THEN FALSE
                 ELSE canFormWordLoop(wordUpper, source, allowDouble, i + 1, j + 1)
            ELSE IF j = -1 THEN FALSE
                 ELSE canFormWordLoop(wordUpper, source, allowDouble, i + 1, j + 1)

canFormWord(word, source, allowDouble) ==
  canFormWordLoop(toUpperCase(word), source, allowDouble, 0, 0)

\* backtrack of generateSubsequences: the strings added from this call on.
RECURSIVE backtrack(_, _, _, _, _)
backtrack(source, minLength, maxLength, index, current) ==
  (IF Len(current) >= minLength /\ Len(current) <= maxLength THEN {current} ELSE {})
  \cup
  (IF Len(current) >= maxLength \/ index >= Len(source) THEN {}
   ELSE backtrack(source, minLength, maxLength, index + 1, Append(current, source[index + 1]))
        \cup backtrack(source, minLength, maxLength, index + 1, current))

generateSubsequences(source, minLength, maxLength) ==
  backtrack(source, minLength, maxLength, 0, <<>>)

\* generateCandidatesWithDoubles: every subsequence, and every subsequence
\* with one of its letters but the last written twice.
generateCandidatesWithDoubles(source, minLength) ==
  LET normalized == normalizeSource(source)
      subsequences == generateSubsequences(normalized, minLength,
                        IF Len(normalized) < 20 THEN Len(normalized) ELSE 20)
      withDouble(subseq, i) == SubSeq(subseq, 1, i + 1) \o <<subseq[i + 1]>>
                               \o SubSeq(subseq, i + 2, Len(subseq))
  IN subsequences
     \cup {withDouble(q[1], q[2]) :
             q \in {c \in UNION {{<<subseq, i>> : i \in 0..(Len(subseq) - 2)} : subseq \in subsequences} :
                      Len(c[1]) + 1 <= 20}}

\* split(/\s+/) of a trimmed string, the empty pieces filtered out: the set
\* of the words between the spaces.
RECURSIVE splitWords(_)
splitWords(s) ==
  IF s = <<>> THEN {}
  ELSE IF s[1] = " " THEN splitWords(Tail(s))
  ELSE LET spaces == {i \in 1..Len(s) : s[i] = " "}
           stop == IF spaces = {} THEN Len(s) + 1
                   ELSE CHOOSE i \in spaces : \A k \in spaces : i <= k
       IN {SubSeq(s, 1, stop - 1)} \cup splitWords(SubSeq(s, stop, Len(s)))

\* The order of validWords.sort: longer first, then alphabetical.
wordBefore(a, b) == Len(a) > Len(b) \/ (Len(a) = Len(b) /\ strLess(a, b))

RECURSIVE sortValidWords(_)
sortValidWords(words) ==
  IF words = {} THEN <<>>
  ELSE LET first == CHOOSE a \in words : \A b \in words \ {a} : wordBefore(a, b)
       IN <<first>> \o sortValidWords(words \ {first})

\* The candidates solveWordbind asks isValidWord about.
formableCandidates(text) ==
  LET normalized == normalizeSource(text)
      sourceWords == splitWords(toUpperCase(trim(text)))
      filteredCandidates == generateCandidatesWithDoubles(normalized, 3) \ sourceWords
  IN {word \in filteredCandidates : canFormWord(word, normalized, TRUE)}

\* solveWordbind with the given cache and dictionary.
solveWordbind(cache, dictionary, text) ==
  LET validWords == {word \in formableCandidates(text) : isValidWord(cache, dictionary, word)}
  IN [words |-> sortValidWords(validWords), totalWords |-> Cardinality(validWords)]

MaxSourceLen == 4
SourceChars == {"A", "P", "e", " "}
SampleCard == <<"S","A","M","P","L","E"," ","C","A","R","D">>
SourceTexts == UNION {[1..n -> SourceChars] : n \in 0..MaxSourceLen} \cup {SampleCard}

\* The word file of the Wordbind page, or a failed fetch.
WordbindResponses ==
  { [ok |-> TRUE,
     lines |-> << <<"a","p","e">>, <<"a","p","p">>, <<"p","e","a">>, <<"p","a","p">>,
                  <<"a","p","p","l","e">>, <<"s","a","m","p","l","e","r">>,
                  <<"s","a","m","p","l","e">>, <<"c","a","r","d">>,
                  <<"c","l","a","d">> >>],
    [ok |-> FALSE, lines |-> <<>>] }

WordbindInit ==
  /\ pc = "wordbind"
  /\ grid = createEmptyGrid
  /\ response \in WordbindResponses
  /\ sortedDictionary = NULL
  /\ result = NULL
  /\ InitialState
  /\ loader = NULL
  /\ wordnik = NULL
  /\ sourceText \in SourceTexts
  /\ memoku = NULL

SolveWordbind ==
  /\ pc = "wordbind"
  /\ \E dictionary \in {loadDictionary(wordSet, response)} :
     \E asked \in {formableCandidates(sourceText)} :
       /\ wordSet' = dictionary
       /\ wordCache' = cacheAfter(wordCache, dictionary, asked)
       /\ result' = solveWordbind(wordCache, dictionary, sourceText)
  /\ pc' = "done"
  /\ UNCHANGED <<grid, response, sortedDictionary, run>>
  /\ UNCHANGED pageVars
  /\ UNCHANGED loader
  /\ UNCHANGED wordnik
  /\ UNCHANGED otherVars

WordbindNext == SolveWordbind

WordbindSpec == WordbindInit /\ [][WordbindNext]_vars

\* The letters of word from position k on can be taken from src in
\* left-to-right order after position j, or once more from position j when
\* that position was used once.
RECURSIVE spelledFrom(_, _, _, _, _)
spelledFrom(word, src, k, j, twice) ==
  IF k > Len(word) THEN TRUE
  ELSE \/ \E p \in (j + 1)..Len(src) : src[p] = word[k] /\ spelledFrom(word, src, k + 1, p, FALSE)
       \/ j > 0 /\ ~twice /\ src[j] = word[k] /\ spelledFrom(word, src, k + 1, j, TRUE)

Spellable(word, text) ==
  spelledFrom(toUpperCase(word), toUpperCase(SelectSeq(text, LAMBDA ch : ch # " ")), 1, 0, FALSE)

SourceWords == splitWords(toUpperCase(trim(sourceText)))
Returned == {result.words[i] : i \in 1..Len(result.words)}

\* C23: solveWordbind returns every lexicon word of at least three letters
\* that can be spelled from the letters of the source in left-to-right
\* order, a letter optionally used twice in a row, and never an exact
\* source word.
C23_WordbindComplete ==
  pc = "done" /\ "totalWords" \in DOMAIN result =>
    /\ \A w \in LocalWords :
         Len(w) >= 3 /\ Spellable(w, sourceText) /\ toUpperCase(w) \notin SourceWords
           => toUpperCase(w) \in Returned
    /\ Returned \cap SourceWords = {}

---------------------------------------------------------------------------
(* Backtracking of traverse.                                               *)

\* The search state in which traverse explores from the last cell of path:
\* the cells of the path marked, no other.
walking(path) ==
  [visited |-> [r \in Rows |-> [c \in Cols |->
                  \E i \in 1..Len(path) : path[i] = [row |-> r, col |-> c]]],
   path |-> path,
   solutions |-> <<>>]

\* The paths traverse explores from: the empty path of findAllWords and the
\* simple paths whose spelling isValidPrefix accepts.
ExploredPaths ==
  {<<>>} \cup
  UNION {{path \in SimplePaths(n) : isValidPrefix(sortedDictionary, Spelled(path))}
         : n \in 1..Cardinality(LetterCells)}

\* The cells traverse is called for with the given path: the start cells of
\* findAllWords, or the adjacent cells of the last cell of the path.
calledFor(path) ==
  LET cells == IF path = <<>> THEN startCells(grid)
               ELSE getAdjacentCells(path[Len(path)].row, path[Len(path)].col)
  IN {cells[k] : k \in 1..Len(cells)}

\* The state traverse returns when called for cell c with the path.
returned(path, c) ==
  traverse(grid, sortedDictionary, walking(path), c.col, c.row, Spelled(path))

\* The state of findAllWords before its k-th search.
beforeSearch(k) ==
  searchFrom(grid, sortedDictionary, newSearch, SubSeq(startCells(grid), 1, k - 1), 1)

unmarked(st) == \A r \in Rows : \A c \in Cols : ~st.visited[r][c]

\* C24: every traverse call, whether it returns at once or explores,
\* returns with the visited matrix and the path it was entered with; each
\* search of findAllWords starts with no cell marked, and none is marked
\* when findAllWords finishes.
C24_BacktrackSymmetric ==
  pc = "done" =>
    /\ \A path \in ExploredPaths : \A c \in calledFor(path) :
         /\ returned(path, c).visited = walking(path).visited
         /\ returned(path, c).path = path
    /\ \A k \in 1..(Len(startCells(grid)) + 1) :
         /\ unmarked(beforeSearch(k))
         /\ beforeSearch(k).path = <<>>

\* A search that found a word, with a call rejected for a visited cell, a
\* call pruned for its prefix, and a call that explored and recorded a word.
C24_Witness ==
  /\ pc = "done"
  /\ Len(Found) > 0
  /\ \E path \in ExploredPaths : \E c \in calledFor(path) :
       /\ path # <<>>
       /\ walking(path).visited[c.row][c.col]
  /\ \E path \in ExploredPaths : \E c \in calledFor(path) :
       /\ cellAt(c).letter # ""
       /\ ~walking(path).visited[c.row][c.col]
       /\ ~isValidPrefix(sortedDictionary, Spelled(Append(path, c)))
  /\ \E path \in ExploredPaths : \E c \in calledFor(path) :
       /\ Len(path) >= 2
       /\ Len(returned(path, c).solutions) > 0

---------------------------------------------------------------------------
(* Plays and the solution on display.                                      *)

\* The words solveSpelltower finds on the grid on display.
WordsOfGrid ==
  LET sequence == solveSpelltower(grid, sortedDictionary).sequence
  IN {sequence[k] : k \in 1..Len(sequence)}

\* The cells of the path hold the letters of the word.
holdsLetters(wordPath) ==
  /\ Len(wordPath.path) = Len(wordPath.word)
  /\ \A i \in 1..Len(wordPath.path) :
       /\ cellAt(wordPath.path[i]).letter # ""
       /\ lowerTable[cellAt(wordPath.path[i]).letter] = wordPath.word[i]

\* C25: a word is only applied to the grid it was found on: while
\* handleUseWord is removing the tiles of a word, that word is one of the
\* solution computed from the grid on display and its path cells hold its
\* letters; and whenever handleUseWord can run, the solution on display is
\* the one computed from the grid.
C25_WordOfCurrentGrid ==
  /\ pc = "useWord" =>
       /\ holdsLetters(pending.selectedWord)
       /\ pending.selectedWord \in WordsOfGrid
  /\ (pc = "idle" /\ solution # NULL /\ selectedWord # NULL) =>
       /\ selectedWord \in WordsOfGrid
       /\ solution.sequence = solveSpelltower(grid, sortedDictionary).sequence

\* A word is played from an earlier history position after an edit.
C25_Witness ==
  /\ pc = "useWord"
  /\ edits > 0
  /\ Len(history) >= 2
  /\ historyIndex < Len(history) - 1

---------------------------------------------------------------------------
(* The score on display and the history.                                   *)

\* history[historyIndex] of the page (the sequence is indexed from 1).
currentState == history[historyIndex + 1]

\* C26: whenever the history is not empty the total score on display is
\* that of history[historyIndex]; in particular it is 0 when handleSolve
\* has completed, whose history is the one entry of score 0.
C26_ScoreOfHistory ==
  Len(history) > 0 => totalScore = currentState.totalScore

---------------------------------------------------------------------------
(* Branching of the history.                                               *)

\* The step in which handleUseWord completes.
UseWordCompletes == pc = "useWord" /\ pc' = "idle"

\* handleRedo can run.
canRedo == historyIndex < Len(history) - 1

\* C27: when handleUseWord completes from history position i the history
\* becomes the entries 0..i followed by the new state, historyIndex becomes
\* i + 1, the last entry, and redo is not possible; and historyIndex is
\* always within -1..history.length - 1.
C27_PlayBranches ==
  /\ [](historyIndex \in -1..(Len(history) - 1))
  /\ [][UseWordCompletes =>
          /\ Len(history') = historyIndex + 2
          /\ \A k \in 1..(historyIndex + 1) : history'[k] = history[k]
          /\ history'[historyIndex + 2] =
               [grid |-> grid', solution |-> solution', totalScore |-> totalScore']
          /\ historyIndex' = historyIndex + 1
          /\ historyIndex' = Len(history') - 1
          /\ ~canRedo']_vars

\* handleUseWord is about to complete from the first of three entries,
\* after two undos.
C27_Witness ==
  /\ pc = "useWord"
  /\ historyIndex = 0
  /\ Len(history) = 3

---------------------------------------------------------------------------
(* Undo and redo.                                                          *)

\* What the page shows of a state.
shown(st) ==
  [grid |-> st.grid, solution |-> st.solution, totalScore |-> st.totalScore,
   historyIndex |-> st.historyIndex]

\* C28: from any state with historyIndex > 0, handleUndo followed by
\* handleRedo restores the grid, solution, totalScore and historyIndex;
\* neither changes the history entries; handleUndo at index 0 and handleRedo
\* at the last index change nothing.
C28_UndoRedoInverse ==
  (pc = "idle" /\ ~solving) =>
    /\ historyIndex > 0 => shown(handleRedo(handleUndo(pageState))) = shown(pageState)
    /\ handleUndo(pageState).history = history
    /\ handleRedo(pageState).history = history
    /\ historyIndex <= 0 => handleUndo(pageState) = pageState
    /\ historyIndex >= Len(history) - 1 => handleRedo(pageState) = pageState

---------------------------------------------------------------------------
(* The cells a play clears and the hovered word.                           *)

\* The grid a play of the word leaves when the bonus cells are those of the
\* word itself.
playedAlone(wordPath) ==
  applyGravity(removeCells(removeCells(grid, wordPath.path),
                           getAdjacentClearCells(grid, wordPath)))

\* C29: handleUseWord clears the path cells of the selected word and the
\* bonus cells (adjacency and red row) the selected word determines,
\* whatever word is hovered: the resulting grid does not depend on
\* hoveredWord.
C29_HoverIndependent ==
  pc = "useWord" =>
    /\ pending.clearCells = getAdjacentClearCells(grid, Played)
    /\ pending.newGrid = playedAlone(Played)

---------------------------------------------------------------------------
(* The Memoku (Sudoku) solver. A SudokuGrid is a sequence of rows, each a  *)
(* sequence of cells; rows and columns are counted from 0 as in the code.  *)

\* null in a cell of a SudokuGrid.
Empty == 0

at(g, row, col) == g[row + 1][col + 1]
put(g, row, col, value) == [g EXCEPT ![row + 1][col + 1] = value]

isValidPlacement(g, row, col, num) ==
  LET boxRow == (row \div 3) * 3
      boxCol == (col \div 3) * 3
  IN /\ \A c \in 0..8 : ~(c # col /\ at(g, row, c) = num)
     /\ \A r \in 0..8 : ~(r # row /\ at(g, r, col) = num)
     /\ \A r \in boxRow..(boxRow + 2) : \A c \in boxCol..(boxCol + 2) :
          ~((r # row \/ c # col) /\ at(g, r, c) = num)

\* The empty cells of the grid as k = 9 * row + col.
emptyCells(g) == {k \in 0..80 : at(g, k \div 9, k % 9) = Empty}

\* findEmptyCell: the first empty cell, row by row (there is one).
findEmptyCell(g) ==
  LET k == CHOOSE k \in emptyCells(g) : \A j \in emptyCells(g) : k <= j
  IN [row |-> k \div 9, col |-> k % 9]

RECURSIVE solveSudoku(_)
RECURSIVE tryNumbers(_, _, _, _)

\* solveSudoku(grid): what it returns, and the grid as it leaves it.
solveSudoku(g) ==
  IF emptyCells(g) = {} THEN [solved |-> TRUE, grid |-> g]
  ELSE tryNumbers(g, findEmptyCell(g).row, findEmptyCell(g).col, 1)

\* The loop of solveSudoku over num for the empty cell.
tryNumbers(g, row, col, num) ==
  IF num > 9 THEN [solved |-> FALSE, grid |-> g]
  ELSE IF isValidPlacement(g, row, col, num)
    THEN LET deeper == solveSudoku(put(g, row, col, num))
         IN IF deeper.solved THEN deeper
            ELSE tryNumbers(put(deeper.grid, row, col, Empty), row, col, num + 1)
  ELSE tryNumbers(g, row, col, num + 1)

\* A SudokuGrid array: its cells, and whether it is the caller's array.
callersSudokuGrid(g) == [cells |-> g, callers |-> TRUE]

\* copyGrid that hands back the array it was given.
copySudokuGrid_SameArray(array) == array

\* copyGrid of the Memoku solver: a new array of new rows.
copySudokuGrid(array) == [cells |-> array.cells, callers |-> FALSE]

\* validateInitialGrid: each given taken out, checked and put back.
validateInitialGrid(g) ==
  \A row \in 0..8 : \A col \in 0..8 :
    LET value == at(g, row, col)
    IN value # Empty => isValidPlacement(put(g, row, col, Empty), row, col, value)

\* solveMemoku(grid): the MemokuSolution returned, and the array it worked
\* in with the cells it left there.
solveMemoku(array) ==
  LET g == array.cells
  IN IF Len(g) # 9 \/ ~(\A i \in 1..Len(g) : Len(g[i]) = 9)
       THEN [solution |-> [solved |-> FALSE, grid |-> g,
                           error |-> "Invalid grid dimensions. Must be 9x9."],
             workingGrid |-> array]
     ELSE LET workingGrid == copySudokuGrid(array)
          IN IF ~validateInitialGrid(workingGrid.cells)
               THEN [solution |-> [solved |-> FALSE, grid |-> g,
                                   error |-> "Invalid initial grid. Contains conflicting values."],
                     workingGrid |-> workingGrid]
             ELSE LET out == solveSudoku(workingGrid.cells)
                      left == [workingGrid EXCEPT !.cells = out.grid]
                  IN IF out.solved
                       THEN [solution |-> [solved |-> TRUE, grid |-> out.grid],
                             workingGrid |-> left]
                       ELSE [solution |-> [solved |-> FALSE,
                                           grid |-> IF left.callers THEN left.cells ELSE g,
                                           error |-> "No solution exists for this puzzle."],
                             workingGrid |-> left]

\* A solved grid, the cells taken out of it, and the cells overwritten.
MaxBlanks == 3
solvedCell(row, col) == ((row * 3 + row \div 3 + col) % 9) + 1
BlankCandidates == {<<0, 0>>, <<8, 1>>, <<4, 4>>, <<1, 3>>, <<1, 6>>, <<2, 3>>}
BlankSets == {b \in SUBSET BlankCandidates : Cardinality(b) <= MaxBlanks}
Overrides == {<<>>, <<0, 1, solvedCell(0, 0)>>, <<4, 5, solvedCell(4, 4)>>,
              <<0, 8, solvedCell(0, 0)>>}
Shapes == {"9x9", "8 rows", "short row"}

puzzle(blanks, override, shape) ==
  LET cell(row, col) ==
        IF override # <<>> /\ override[1] = row /\ override[2] = col THEN override[3]
        ELSE IF <<row, col>> \in blanks THEN Empty
        ELSE solvedCell(row, col)
      full == [i \in 1..9 |-> [j \in 1..9 |-> cell(i - 1, j - 1)]]
  IN IF shape = "8 rows" THEN SubSeq(full, 1, 8)
     ELSE IF shape = "short row" THEN [full EXCEPT ![1] = SubSeq(@, 1, 8)]
     ELSE full

Puzzles ==
  {puzzle(blanks, override, shape) :
     blanks \in BlankSets, override \in Overrides, shape \in Shapes}

MemokuInit ==
  /\ pc = "memoku"
  /\ grid = createEmptyGrid
  /\ response \in {[ok |-> FALSE, lines |-> <<>>]}
  /\ sortedDictionary = NULL
  /\ result = NULL
  /\ InitialState
  /\ loader = NULL
  /\ wordnik = NULL
  /\ sourceText = NULL
  /\ memoku \in Puzzles

\* handleSolve of the Memoku page: solveMemoku(grid). A write into an array
\* that is the caller's changes the caller's grid.
SolveMemoku ==
  /\ pc = "memoku"
  /\ \E out \in {solveMemoku(callersSudokuGrid(memoku))} :
       /\ result' = out.solution
       /\ memoku' = IF out.workingGrid.callers THEN out.workingGrid.cells ELSE memoku
  /\ pc' = "done"
  /\ UNCHANGED <<grid, response, sortedDictionary>>
  /\ UNCHANGED pageVars
  /\ UNCHANGED greedyVars
  /\ UNCHANGED loader
  /\ UNCHANGED wordnik
  /\ UNCHANGED sourceText

MemokuNext == SolveMemoku

MemokuSpec == MemokuInit /\ [][MemokuNext]_vars

\* The grid is 9x9.
nineByNine(g) == Len(g) = 9 /\ \A i \in 1..Len(g) : Len(g[i]) = 9

\* Two givens of a 9x9 grid are equal and share a row, a column or a box.
conflicting(g) ==
  \E p, q \in (0..8) \X (0..8) :
    /\ p # q
    /\ at(g, p[1], p[2]) # Empty
    /\ at(g, p[1], p[2]) = at(g, q[1], q[2])
    /\ \/ p[1] = q[1]
       \/ p[2] = q[2]
       \/ (p[1] \div 3 = q[1] \div 3 /\ p[2] \div 3 = q[2] \div 3)

\* Every row, column and 3x3 box of the grid holds 1..9 exactly once.
isSolution(g) ==
  /\ nineByNine(g)
  /\ \A r \in 0..8 : {at(g, r, c) : c \in 0..8} = 1..9
  /\ \A c \in 0..8 : {at(g, r, c) : r \in 0..8} = 1..9
  /\ \A br, bc \in 0..2 :
       {at(g, 3 * br + r, 3 * bc + c) : r, c \in 0..2} = 1..9

\* C30: solveMemoku never modifies the caller's grid; it returns solved =
\* true only with a full grid whose rows, columns and boxes each hold 1..9
\* once and that keeps every given; a grid that is not 9x9 or whose givens
\* conflict yields solved = false, an error message and the original grid.
C30_MemokuSound ==
  [][(pc = "memoku" /\ pc' = "done") =>
       /\ memoku' = memoku
       /\ result'.solved =>
            /\ isSolution(result'.grid)
            /\ \A r, c \in 0..8 :
                 at(memoku, r, c) # Empty => at(result'.grid, r, c) = at(memoku, r, c)
       /\ (~nineByNine(memoku) \/ conflicting(memoku)) =>
            /\ ~result'.solved
            /\ "error" \in DOMAIN result'
            /\ result'.error # ""
            /\ result'.grid = memoku]_vars

\* A puzzle with three empty cells was solved after backtracking: a
\* smaller number than the one returned could be placed in an empty cell.
C30_Witness ==
  /\ pc = "done"
  /\ "solved" \in DOMAIN result
  /\ result.solved
  /\ nineByNine(memoku)
  /\ Cardinality(emptyCells(memoku)) = 3
  /\ \E k \in emptyCells(memoku) : \E num \in 1..9 :
       /\ num < at(result.grid, k \div 9, k % 9)
       /\ isValidPlacement(memoku, k \div 9, k % 9, num)

=============================================================================
